---- MODULE Spec2Model ----
(***************************************************************************)
(* Link extraction, classification, resolution and the checking loop of    *)
(* the weathermakers site-maintenance scripts (check_broken_links.py,      *)
(* analyze_broken_links.py).                                               *)
(*                                                                         *)
(* Text is modelled character by character: a Python str is a sequence of  *)
(* one-character strings, so that prefix tests, splits and the attribute   *)
(* pattern are computed the way the code computes them.                    *)
(***************************************************************************)
EXTENDS Integers, Sequences, FiniteSets, TLC

VARIABLES
    pc,            \* position of the running script
    content,       \* extract_links_from_html: text read from the html file
    read_failed,   \* extract_links_from_html: open()/read() raised
    matches,       \* match objects iterated by the two re.finditer loops
    links,         \* list returned by extract_links_from_html
    url,           \* raw link handed to is_internal_link / normalize_path
    current_dir,   \* current_file_path.parent, as directory names below site_root
    internal,      \* value returned by is_internal_link (FALSE before the call)
    normalized,    \* value returned by normalize_path (empty before the call)
    site_files,    \* the files on disk, each as its names below the drive root
    html_files,    \* main: the html files found by os.walk, in order
    file_index,    \* main: position of `for html_file in html_files`
    internal_links,      \* main: internal links of the current file
    link_index,          \* main: position of `for link in internal_links`
    total_links_checked, \* main: counter
    normalize_calls,     \* calls of normalize_path made by main, in order
    exists_calls,        \* calls of check_file_exists made by main, in order
    broken_links,        \* main: the broken-link records, in order of discovery
    categorized_link,    \* categorize_broken_link: its argument `link`
    category,            \* categorize_broken_link: its result (empty before the call)
    argv,                \* sys.argv of the running script
    dry_run,             \* the dry_run flag computed from sys.argv
    script,              \* the fixer script that is run
    disk,                \* content of each file of the site (None: no such file)
    run,                 \* how many times the script has been started
    fix_files,           \* fixer main: the html files found by os.walk, in order
    fix_index,           \* fixer main: position of the loop over the files
    fix_call,            \* the last call of the per-file function
    total_fixes_made,    \* fixer main: counter
    files_with_fixes,    \* fixer main: counter
    reports,             \* the summary printed by each finished run
    fix_results,         \* what the script's substitutions make of each content
                         \* a page of this site can come to hold
    dirs,                \* the directories below the blog root
    rename_operations,   \* cleanup_blog_filenames main: the planned renames
    failed_operations,   \* cleanup_blog_filenames main: the files it gave up on
    removed_count,       \* compare_and_remove_duplicates: counter
    all_files,           \* analyze_repo main: the paths listed by git ls-tree
    rename_mapping,      \* analyze_repo main: original path -> sanitized path
    used_names,          \* analyze_repo main: the sanitized paths given out
    mapping_file,        \* the lines of rename_mapping.txt
    loaded_mapping,      \* what load_rename_mapping returned
    fn_input,            \* the arguments of a function that is called by itself
    fn_output            \* what that call returned (empty before the call)

extractVars == <<content, read_failed, matches, links>>
resolveVars == <<url, current_dir, internal, normalized>>
mainVars == <<site_files, html_files, file_index, internal_links, link_index,
              total_links_checked, normalize_calls, exists_calls, broken_links>>
checkerVars == <<extractVars, resolveVars, mainVars>>
categorizeVars == <<categorized_link, category>>
commandVars == <<argv, dry_run>>
fixVars == <<script, disk, run, fix_files, fix_index, fix_call,
             total_fixes_made, files_with_fixes, reports, fix_results>>
cleanupVars == <<dirs, rename_operations, failed_operations>>
duplicateVars == <<removed_count>>
mappingVars == <<all_files, rename_mapping, used_names, mapping_file, loaded_mapping>>
functionVars == <<fn_input, fn_output>>
toolVars == <<cleanupVars, duplicateVars, mappingVars, functionVars>>
scriptVars == <<categorizeVars, commandVars, fixVars, toolVars>>
vars == <<pc, checkerVars, scriptVars>>

(***************************************************************************)
(* Bounds of the model.                                                    *)
(***************************************************************************)
MaxAttrs == 3      \* attribute-like items in a generated document
MaxSegs == 2       \* names in the path of a generated link
MaxLinks == 2      \* attributes in a generated page of the checking loop

(***************************************************************************)
(* str helpers.                                                            *)
(***************************************************************************)
StartsWith(s, p) ==
    /\ Len(p) <= Len(s)
    /\ SubSeq(s, 1, Len(p)) = p

EndsWith(s, p) ==
    /\ Len(p) <= Len(s)
    /\ SubSeq(s, Len(s) - Len(p) + 1, Len(s)) = p

\* p in s
Contains(s, p) ==
    \E i \in 1..(Len(s) - Len(p) + 1) : SubSeq(s, i, i + Len(p) - 1) = p

HasChar(s, c) == \E i \in 1..Len(s) : s[i] = c

\* s.find(c) among a set of characters, 1-based from position p; Len(s)+1 if none
RECURSIVE FindAny(_, _, _)
FindAny(s, cs, p) ==
    IF p > Len(s) THEN Len(s) + 1
    ELSE IF s[p] \in cs THEN p
    ELSE FindAny(s, cs, p + 1)

\* s.split(c)[0]
SplitFirst(s, c) == SubSeq(s, 1, FindAny(s, {c}, 1) - 1)

RECURSIVE JoinWith(_, _)
JoinWith(ss, sep) ==
    IF ss = <<>> THEN <<>>
    ELSE IF Len(ss) = 1 THEN ss[1]
    ELSE ss[1] \o sep \o JoinWith(Tail(ss), sep)

SeqsUpTo(S, n) == UNION {[1..k -> S] : k \in 0..n}

(***************************************************************************)
(* Link Extractor: extract_links_from_html.                                *)
(***************************************************************************)
href_attr == <<"h", "r", "e", "f", "=">>
src_attr == <<"s", "r", "c", "=">>
Quotes == {"\"", "'"}

\* re.IGNORECASE on the letters of the two attribute names
Lower(c) ==
    CASE c = "H" -> "h" [] c = "R" -> "r" [] c = "E" -> "e" [] c = "F" -> "f"
      [] c = "S" -> "s" [] c = "C" -> "c" [] OTHER -> c

\* The pattern  attr=["\']([^"\']+)["\']  tried at position i of text.  The
\* result is the index of the closing quote, or 0 when there is no match.
PatternMatchAt(text, attr, i) ==
    LET n == Len(attr)
        close == FindAny(text, Quotes, i + n + 1)
    IN  IF /\ i + n <= Len(text)
           /\ \A k \in 1..n : Lower(text[i + k - 1]) = attr[k]
           /\ text[i + n] \in Quotes
           /\ close <= Len(text)
           /\ close > i + n + 1
        THEN close
        ELSE 0

\* re.finditer(pattern, content, re.IGNORECASE): leftmost non-overlapping
\* matches scanning from position p.
RECURSIVE finditer(_, _, _, _)
finditer(name, attr, text, p) ==
    IF p > Len(text) THEN <<>>
    ELSE LET close == PatternMatchAt(text, attr, p)
         IN  IF close = 0 THEN finditer(name, attr, text, p + 1)
             ELSE <<[attr |-> name, start |-> p, stop |-> close,
                     group1 |-> SubSeq(text, p + Len(attr) + 1, close - 1)]>>
                  \o finditer(name, attr, text, close + 1)

\* One pass over the text finding either attribute in document order.
SinglePassMatches(text) ==
    LET h == finditer("href", href_attr, text, 1)
        s == finditer("src", src_attr, text, 1)
        all == {h[i] : i \in 1..Len(h)} \cup {s[i] : i \in 1..Len(s)}
        starts == {m.start : m \in all}
        RECURSIVE Ordered(_)
        Ordered(ps) ==
            IF ps = {} THEN <<>>
            ELSE LET lo == CHOOSE x \in ps : \A y \in ps : x <= y
                 IN  <<CHOOSE m \in all : m.start = lo>> \o Ordered(ps \ {lo})
    IN  Ordered(starts)

\* The two loops of extract_links_from_html: every href match, then every src match.
LinkMatches(text) ==
    finditer("href", href_attr, text, 1) \o finditer("src", src_attr, text, 1)

extract_links_from_html(text) ==
    LET ms == LinkMatches(text)
    IN  [k \in 1..Len(ms) |-> ms[k].group1]

\* Generated documents: attribute-like items separated by single spaces.
AttrItems == {
    <<"h", "r", "e", "f", "=", "\"", "a", "\"">>,                       \* href="a"
    <<"s", "r", "c", "=", "\"", "b", "\"">>,                            \* src="b"
    <<"H", "R", "E", "F", "=", "'", "c", "'">>,                         \* HREF='c'
    <<"S", "r", "c", "=", "\"", "a", "\"">>,                            \* Src="a"
    <<"h", "r", "e", "f", "=", "\"", "\"">>,                            \* href=""
    <<"h", "r", "e", "f", "=", "\"", "d">>,                             \* href="d
    <<"d", "a", "t", "a", "-", "s", "r", "c", "=", "'", "e", "'">>,     \* data-src='e'
    <<"h", "r", "e", "f", "=", "f">>,                                   \* href=f
    <<"h", "r", "e", "f", "=", "\"", "s", "r", "c", "=", "\"", "g", "\"">>  \* href="src="g"
}

Documents == {JoinWith(items, <<" ">>) : items \in SeqsUpTo(AttrItems, MaxAttrs)}

ExtractIdle ==
    /\ content = <<>>
    /\ read_failed = FALSE
    /\ matches = <<>>
    /\ links = <<>>

ResolveIdle ==
    /\ url = <<>>
    /\ current_dir = <<>>
    /\ internal = FALSE
    /\ normalized = <<>>

MainIdle ==
    /\ site_files = {}
    /\ html_files = <<>>
    /\ file_index = 0
    /\ internal_links = <<>>
    /\ link_index = 0
    /\ total_links_checked = 0
    /\ normalize_calls = <<>>
    /\ exists_calls = <<>>
    /\ broken_links = <<>>

CheckerIdle ==
    /\ ExtractIdle
    /\ ResolveIdle
    /\ MainIdle

CategorizeIdle ==
    /\ categorized_link = <<>>
    /\ category = <<>>

CommandIdle ==
    /\ argv = <<>>
    /\ dry_run = TRUE

FixIdle ==
    /\ script = ""
    /\ disk = <<>>
    /\ run = 0
    /\ fix_files = <<>>
    /\ fix_index = 0
    /\ fix_call = <<>>
    /\ total_fixes_made = 0
    /\ files_with_fixes = 0
    /\ reports = <<>>
    /\ fix_results = <<>>

CleanupIdle ==
    /\ dirs = {}
    /\ rename_operations = <<>>
    /\ failed_operations = <<>>

DuplicatesIdle == removed_count = 0

MappingIdle ==
    /\ all_files = <<>>
    /\ rename_mapping = <<>>
    /\ used_names = {}
    /\ mapping_file = <<>>
    /\ loaded_mapping = <<>>

FunctionIdle ==
    /\ fn_input = <<>>
    /\ fn_output = <<>>

ToolsIdle ==
    /\ CleanupIdle
    /\ DuplicatesIdle
    /\ MappingIdle
    /\ FunctionIdle

ScriptsIdle ==
    /\ CategorizeIdle
    /\ CommandIdle
    /\ FixIdle
    /\ ToolsIdle

InitExtract ==
    /\ pc = "extract"
    /\ content \in Documents
    /\ read_failed = FALSE
    /\ matches = <<>>
    /\ links = <<>>
    /\ ResolveIdle
    /\ MainIdle
    /\ ScriptsIdle

\* extract_links_from_html(html_file), the file read without error
ExtractLinks ==
    /\ pc = "extract"
    /\ matches' = LinkMatches(content)
    /\ links' = extract_links_from_html(content)
    /\ pc' = "extracted"
    /\ UNCHANGED <<content, read_failed, resolveVars, mainVars>>
    /\ UNCHANGED scriptVars

\* extract_links_from_html(html_file), open() or read() raising: returns []
ExtractReadError ==
    /\ pc = "extract"
    /\ read_failed' = TRUE
    /\ matches' = <<>>
    /\ links' = <<>>
    /\ pc' = "extracted"
    /\ UNCHANGED <<content, resolveVars, mainVars>>
    /\ UNCHANGED scriptVars

NextExtract == ExtractLinks \/ ExtractReadError

SpecExtract == InitExtract /\ [][NextExtract]_vars

(***************************************************************************)
(* Claims about the Link Extractor (checked under SpecExtract).            *)
(***************************************************************************)
\* text[i..j] spells  attr = quote value quote  with a non-empty quote-free value
AttributeAt(text, attr, i, j) ==
    LET n == Len(attr)
    IN  /\ i + n <= Len(text)
        /\ j <= Len(text)
        /\ j > i + n + 1
        /\ \A k \in 1..n : Lower(text[i + k - 1]) = attr[k]
        /\ text[i + n] \in Quotes
        /\ text[j] \in Quotes
        /\ \A m \in (i + n + 1)..(j - 1) : text[m] \notin Quotes

AttrText(name) == IF name = "href" THEN href_attr ELSE src_attr

Extracted == pc = "extracted" /\ ~read_failed

\* C1 (as stated): whenever a src attribute value occurs in the document before
\* an href attribute value, the src value precedes the href value in the
\* returned list.
C1_DocumentOrder ==
    Extracted =>
        \A k, l \in 1..Len(matches) :
            (/\ matches[k].attr = "src"
             /\ matches[l].attr = "href"
             /\ matches[k].start < matches[l].start) => k < l

\* C1 (amended): the returned list is the value of every href attribute in
\* document order followed by the value of every src attribute in document
\* order, duplicates retained; an href value always precedes a src value.
\* (An attribute is passed over only when it begins inside the text already
\* matched as an earlier attribute of the same name.)
C1_HrefThenSrcOrder ==
    Extracted =>
        /\ Len(links) = Len(matches)
        /\ \A k \in 1..Len(matches) :
              LET m == matches[k]
              IN  /\ links[k] = m.group1
                  /\ AttributeAt(content, AttrText(m.attr), m.start, m.stop)
                  /\ m.group1 = SubSeq(content, m.start + Len(AttrText(m.attr)) + 1, m.stop - 1)
        /\ \A k, l \in 1..Len(matches) :
              k < l =>
                  /\ matches[k].attr = "src" => matches[l].attr = "src"
                  /\ matches[k].attr = matches[l].attr => matches[k].stop < matches[l].start
        /\ \A name \in {"href", "src"} :
              \A i, j \in 1..Len(content) :
                  AttributeAt(content, AttrText(name), i, j) =>
                      \E k \in 1..Len(matches) :
                          /\ matches[k].attr = name
                          /\ matches[k].start <= i
                          /\ i <= matches[k].stop

\* C1 witness: a src attribute written before an href attribute, both
\* extracted, the href value returned first; and a value returned twice.
C1_Witness ==
    /\ Extracted
    /\ \E k, l \in 1..Len(matches) :
          /\ k < l
          /\ matches[k].attr = "href"
          /\ matches[l].attr = "src"
          /\ matches[l].start < matches[k].start
    /\ \E k, l \in 1..Len(links) : k < l /\ links[k] = links[l]

(***************************************************************************)
(* Internal-Link Classifier: is_internal_link, with urllib.parse.urlparse. *)
(***************************************************************************)
base_domain == <<"w", "e", "a", "t", "h", "e", "r", "m", "a", "k", "e", "r", "s", "c", "o", "m", "f", "o", "r", "t", ".", "c", "o", "m">>
http_scheme == <<"h", "t", "t", "p", ":", "/", "/">>
https_scheme == <<"h", "t", "t", "p", "s", ":", "/", "/">>

IsAbsoluteUrl(u) == StartsWith(u, http_scheme) \/ StartsWith(u, https_scheme)

\* urlsplit: the text after "scheme:" (the scheme ends at the first ':')
AfterScheme(u) == SubSeq(u, FindAny(u, {":"}, 1) + 1, Len(u))

\* _splitnetloc(url, 2): the netloc runs from after '//' to the first of / ? #
urlparse_netloc(u) ==
    LET rest == AfterScheme(u)
    IN  SubSeq(rest, 3, FindAny(rest, {"/", "?", "#"}, 3) - 1)

\* urlsplit raises ValueError("Invalid IPv6 URL") for an unbalanced bracket
urlparse_raises(u) ==
    LET netloc == urlparse_netloc(u)
    IN  HasChar(netloc, "[") # HasChar(netloc, "]")

\* _splitparams: the path loses ';params' of its last segment
splitparams(p) ==
    LET slashes == {i \in 1..Len(p) : p[i] = "/"}
        last == IF slashes = {} THEN 0 ELSE CHOOSE i \in slashes : \A j \in slashes : j <= i
    IN  SubSeq(p, 1, FindAny(p, {";"}, last + 1) - 1)

\* urlparse(url).path for an http(s) URL: fragment, query and params removed
urlparse_path(u) ==
    LET rest == AfterScheme(u)
        tail == SubSeq(rest, FindAny(rest, {"/", "?", "#"}, 3), Len(rest))
    IN  splitparams(SplitFirst(SplitFirst(tail, "#"), "?"))

\* url.startswith('/') or not url.startswith('http')
RelativeFallback(u) == StartsWith(u, <<"/">>) \/ ~StartsWith(u, <<"h", "t", "t", "p">>)

NonNavigational(u) ==
    \/ StartsWith(u, <<"#">>)
    \/ StartsWith(u, <<"m", "a", "i", "l", "t", "o", ":">>)
    \/ StartsWith(u, <<"t", "e", "l", ":">>)
    \/ StartsWith(u, <<"j", "a", "v", "a", "s", "c", "r", "i", "p", "t", ":">>)

\* is_internal_link(url), when urlparse does not raise
is_internal_link(u) ==
    IF NonNavigational(u) THEN FALSE
    ELSE IF IsAbsoluteUrl(u) THEN Contains(urlparse_netloc(u), base_domain)
    ELSE IF RelativeFallback(u) THEN TRUE
    ELSE FALSE

\* is_internal_link(url) leaves by an exception: urlparse is called outside any try
is_internal_link_raises(u) ==
    /\ ~NonNavigational(u)
    /\ IsAbsoluteUrl(u)
    /\ urlparse_raises(u)

(***************************************************************************)
(* Path Resolver: normalize_path, with the pathlib operations it uses.     *)
(* Paths are resolved lexically: the site tree holds no symbolic links.    *)
(***************************************************************************)
None == <<"None">>
index_html == <<"i", "n", "d", "e", "x", ".", "h", "t", "m", "l">>

\* site_root = Path("D:/Dropbox/Weathermakers"), as names below the drive root
site_root == <<<<"D", "r", "o", "p", "b", "o", "x">>, <<"W", "e", "a", "t", "h", "e", "r", "m", "a", "k", "e", "r", "s">>>>

\* str.split('/')
RECURSIVE SplitSlash(_)
SplitSlash(p) ==
    LET i == FindAny(p, {"/"}, 1)
    IN  IF i > Len(p) THEN <<p>>
        ELSE <<SubSeq(p, 1, i - 1)>> \o SplitSlash(SubSeq(p, i + 1, Len(p)))

\* pathlib parsing: the names of a path; empty names and '.' names are dropped
PathParts(p) ==
    SelectSeq(SplitSlash(p), LAMBDA seg : seg # <<>> /\ seg # <<".">>)

\* Path(path).name
PathName(p) ==
    LET parts == PathParts(p)
    IN  IF parts = <<>> THEN <<>> ELSE parts[Len(parts)]

\* Path.resolve(): '..' removes the name before it, and stays at the drive root
RECURSIVE Resolve(_, _)
Resolve(done, todo) ==
    IF todo = <<>> THEN done
    ELSE IF Head(todo) = <<".", ".">>
         THEN Resolve(IF done = <<>> THEN <<>> ELSE SubSeq(done, 1, Len(done) - 1), Tail(todo))
         ELSE Resolve(Append(done, Head(todo)), Tail(todo))

\* (current_dir / path).resolve(), as names below the drive root
ResolvedLocation(path, dir) == Resolve(<<>>, site_root \o dir \o PathParts(path))

\* Path.relative_to(site_root) raises ValueError unless site_root is a prefix
IsUnderRoot(abs) ==
    /\ Len(abs) >= Len(site_root)
    /\ SubSeq(abs, 1, Len(site_root)) = site_root

\* str(p.relative_to(site_root)): the names joined, '.' for the root itself
RelativeToRoot(abs) ==
    LET rel == SubSeq(abs, Len(site_root) + 1, Len(abs))
    IN  IF rel = <<>> THEN <<".">> ELSE JoinWith(rel, <<"/">>)

\* Query and fragment removal that cuts at the fragment only.
StripFragmentOnly(p) ==
    IF HasChar(p, "#") THEN SplitFirst(p, "#") ELSE p

\* path.split('?')[0], then path.split('#')[0]
StripQueryFragment(p) ==
    LET q == IF HasChar(p, "?") THEN SplitFirst(p, "?") ELSE p
    IN  IF HasChar(q, "#") THEN SplitFirst(q, "#") ELSE q

\* Prefix removal that always drops one leading '/' only.
StripSlashOnly(p) ==
    IF StartsWith(p, <<"/">>) THEN SubSeq(p, 2, Len(p)) ELSE p

\* path[6:] for a '/blog/' prefix, else path[1:] for a '/' prefix
StripPrefix(p) ==
    IF StartsWith(p, <<"/", "b", "l", "o", "g", "/">>) THEN SubSeq(p, 7, Len(p))
    ELSE IF StartsWith(p, <<"/">>) THEN SubSeq(p, 2, Len(p))
    ELSE p

\* Index expansion that appends without looking at the last name.
IndexExpansionAlways(p) ==
    IF p = <<>> \/ p = <<"/">> THEN index_html
    ELSE IF EndsWith(p, <<"/">>) THEN p \o index_html \o <<"/", "i", "n", "d", "e", "x", ".", "h", "t", "m", "l">>
    ELSE p \o <<"/", "i", "n", "d", "e", "x", ".", "h", "t", "m", "l">>

\* The last four steps of normalize_path, after the prefix is removed
IndexExpansion(p) ==
    IF p = <<>> \/ p = <<"/">> THEN index_html
    ELSE LET q == IF EndsWith(p, <<"/">>) THEN p \o index_html ELSE p
         IN  IF ~HasChar(PathName(q), ".") THEN q \o <<"/", "i", "n", "d", "e", "x", ".", "h", "t", "m", "l">> ELSE q

\* Relative resolution that does not test the result against site_root.
RelativeBranchUnchecked(path, dir) ==
    LET abs == ResolvedLocation(path, dir)
    IN  IF IsUnderRoot(abs) THEN <<"/">> \o RelativeToRoot(abs)
        ELSE <<"/">> \o JoinWith(abs, <<"/">>)

\* The relative branch: "/" + str((current_dir / path).resolve().relative_to(site_root)),
\* None standing for the ValueError of relative_to
RelativeBranch(path, dir) ==
    LET abs == ResolvedLocation(path, dir)
    IN  IF IsUnderRoot(abs) THEN <<"/">> \o RelativeToRoot(abs) ELSE None

\* normalize_path(url, current_file_path, site_root); dir is current_file_path.parent
normalize_path(u, dir) ==
    IF IsAbsoluteUrl(u) /\ urlparse_raises(u) THEN None
    ELSE LET path == StripQueryFragment(IF IsAbsoluteUrl(u) THEN urlparse_path(u) ELSE u)
             rooted == IF StartsWith(path, <<"/">>) THEN path ELSE RelativeBranch(path, dir)
         IN  IF rooted = None THEN None
             ELSE IndexExpansion(StripPrefix(rooted))

(***************************************************************************)
(* Generated links and source-file locations.                              *)
(***************************************************************************)
PathSegments == {<<"a">>, <<"b", ".", "c", "s", "s">>, <<".", ".">>, <<"b", "l", "o", "g">>, <<".">>}
Leads == {<<>>, <<"/">>, <<"/", "/">>}
Trails == {<<>>, <<"/">>}
Suffixes == {<<>>, <<"?", "q">>, <<"#", "f">>, <<"?", "q", "#", "f">>, <<"#", "f", "?", "q">>}

\* path text: optional leading slashes, up to MaxSegs names, optional trailing slash
PathBodies ==
    {lead \o JoinWith(segs, <<"/">>) \o trail :
        lead \in Leads, segs \in SeqsUpTo(PathSegments, MaxSegs), trail \in Trails}

NonNavPrefixes == {<<"#">>, <<"m", "a", "i", "l", "t", "o", ":">>, <<"t", "e", "l", ":">>, <<"j", "a", "v", "a", "s", "c", "r", "i", "p", "t", ":">>}

AbsolutePrefixes == {
    http_scheme \o base_domain,
    https_scheme \o <<"w", "w", "w", ".">> \o base_domain,
    http_scheme \o <<"x">> \o base_domain \o <<".", "e", "v", "i", "l", ".", "o", "r", "g">>,
    https_scheme \o <<"e", "v", "i", "l", ".", "o", "r", "g">>,
    http_scheme \o base_domain \o <<"@", "e", "v", "i", "l", ".", "o", "r", "g">>,
    http_scheme \o <<"e", "v", "i", "l", ".", "o", "r", "g", ":", "8", "0">>,
    http_scheme \o <<"[">> \o base_domain,
    http_scheme
}

\* links for the classifier: every kind of prefix, short paths
ClassifierBodies == {<<>>, <<"/">>, <<"a">>, <<"-", "f", "a", "q", ".", "h", "t", "m", "l">>, <<"/", "b", "l", "o", "g", "/", "a", "/">>, <<"s", ":", "/", "/", "a">>}
ClassifierPrefixes ==
    {<<>>, <<"h", "t", "t", "p">>, <<"/", "h", "t", "t", "p", ":">>} \cup NonNavPrefixes \cup AbsolutePrefixes
    \cup {n \o a : n \in NonNavPrefixes, a \in {http_scheme \o base_domain}}
ClassifierLinks ==
    {p \o b \o s : p \in ClassifierPrefixes, b \in ClassifierBodies, s \in {<<>>, <<"?", "q">>, <<"#", "f">>}}

\* paths outside the regular shape: ';params', a doubled '/' after '/blog'
ExtraBodies == {<<"/", "a", ";", "p", "/", "b", ";", "p">>, <<"/", "b", "l", "o", "g", "/", "/">>, <<"/", "b", "l", "o", "g", "/", "/", "a">>}

\* links for the resolver: relative, root-absolute and absolute-URL forms of every path
ResolverPrefixes ==
    {<<>>, http_scheme \o base_domain, https_scheme \o <<"e", "v", "i", "l", ".", "o", "r", "g">>,
     http_scheme \o <<"[">> \o base_domain}
ResolverLinks ==
    {p \o b \o s : p \in ResolverPrefixes, b \in PathBodies \cup ExtraBodies, s \in Suffixes}

\* directories holding the source html file, as names below site_root
SourceDirs == {
    <<>>,
    <<<<"s", "u", "b">>>>,
    <<<<"b", "l", "o", "g">>>>,
    <<<<"b", "l", "o", "g", "s">>>>,
    <<<<"b", "l", "o", "g">>, <<"c", "a", "t">>>>,
    <<<<"s", "u", "b">>, <<"b", "l", "o", "g">>>>
}

(***************************************************************************)
(* The classifier and the resolver applied to one link.                    *)
(***************************************************************************)
InitClassify ==
    /\ pc = "classify"
    /\ url \in ClassifierLinks
    /\ current_dir = <<>>
    /\ internal = FALSE
    /\ normalized = <<>>
    /\ ExtractIdle
    /\ MainIdle
    /\ ScriptsIdle

\* is_internal_link(url) returns
ClassifyLink ==
    /\ pc = "classify"
    /\ ~is_internal_link_raises(url)
    /\ internal' = is_internal_link(url)
    /\ pc' = "classified"
    /\ UNCHANGED <<url, current_dir, normalized, extractVars, mainVars>>
    /\ UNCHANGED scriptVars

\* is_internal_link(url) raises ValueError out of urlparse
ClassifyRaises ==
    /\ pc = "classify"
    /\ is_internal_link_raises(url)
    /\ pc' = "raised"
    /\ UNCHANGED <<resolveVars, extractVars, mainVars>>
    /\ UNCHANGED scriptVars

NextClassify == ClassifyLink \/ ClassifyRaises

SpecClassify == InitClassify /\ [][NextClassify]_vars

InitNormalize ==
    /\ pc = "normalize"
    /\ url \in ResolverLinks
    /\ current_dir \in SourceDirs
    /\ internal = FALSE
    /\ normalized = <<>>
    /\ ExtractIdle
    /\ MainIdle
    /\ ScriptsIdle

\* normalized_path = normalize_path(link, html_file, site_root)
NormalizePath ==
    /\ pc = "normalize"
    /\ normalized' = normalize_path(url, current_dir)
    /\ pc' = "normalized"
    /\ UNCHANGED <<url, current_dir, internal, extractVars, mainVars>>
    /\ UNCHANGED scriptVars

NextNormalize == NormalizePath

SpecNormalize == InitNormalize /\ [][NextNormalize]_vars

(***************************************************************************)
(* Claims about the Internal-Link Classifier (checked under SpecClassify). *)
(***************************************************************************)
Classified == pc = "classified"

\* the six prefixes the classifier names
NamedPrefixes ==
    {<<"#">>, <<"m", "a", "i", "l", "t", "o", ":">>, <<"t", "e", "l", ":">>, <<"j", "a", "v", "a", "s", "c", "r", "i", "p", "t", ":">>, <<"h", "t", "t", "p", ":", "/", "/">>, <<"h", "t", "t", "p", "s", ":", "/", "/">>}

\* the host of an http(s) URL: the netloc without userinfo and port
UrlHost(u) ==
    LET netloc == urlparse_netloc(u)
        ats == {i \in 1..Len(netloc) : netloc[i] = "@"}
        from == IF ats = {} THEN 1 ELSE 1 + CHOOSE i \in ats : \A j \in ats : j <= i
        hostport == SubSeq(netloc, from, Len(netloc))
    IN  SubSeq(hostport, 1, FindAny(hostport, {":"}, 1) - 1)

\* C2: every link that begins with none of '#', 'mailto:', 'tel:',
\* 'javascript:', 'http://', 'https://' is classified internal, bare relative
\* paths such as 'http-faq.html' included.
C2_OtherLinksInternal ==
    (Classified /\ \A p \in NamedPrefixes : ~StartsWith(url, p)) => internal

\* C3: a link beginning with '#', 'mailto:', 'tel:' or 'javascript:' is never
\* internal, whatever follows; a link beginning with 'http://' or 'https://'
\* is internal exactly when the URL's host contains the site domain.
C3_PriorityOrder ==
    Classified =>
        /\ (\E p \in {<<"#">>, <<"m", "a", "i", "l", "t", "o", ":">>, <<"t", "e", "l", ":">>, <<"j", "a", "v", "a", "s", "c", "r", "i", "p", "t", ":">>} : StartsWith(url, p))
              => ~internal
        /\ (/\ \A p \in {<<"#">>, <<"m", "a", "i", "l", "t", "o", ":">>, <<"t", "e", "l", ":">>, <<"j", "a", "v", "a", "s", "c", "r", "i", "p", "t", ":">>} : ~StartsWith(url, p)
            /\ \E p \in {<<"h", "t", "t", "p", ":", "/", "/">>, <<"h", "t", "t", "p", "s", ":", "/", "/">>} : StartsWith(url, p))
              => (internal <=> Contains(UrlHost(url), base_domain))

(***************************************************************************)
(* Claims about the Path Resolver (checked under SpecNormalize).           *)
(***************************************************************************)
Normalized == pc = "normalized"

\* the link up to its first '?' or '#'
BeforeQueryFragment(u) == SubSeq(u, 1, FindAny(u, {"?", "#"}, 1) - 1)

\* the text after the last '/' of a path
FinalSegment(p) ==
    LET slashes == {i \in 1..Len(p) : p[i] = "/"}
        last == IF slashes = {} THEN 0 ELSE CHOOSE i \in slashes : \A j \in slashes : j <= i
    IN  SubSeq(p, last + 1, Len(p))

\* a root-absolute link without its '/blog/' prefix, or else its first '/'
WithoutRootPrefix(p) ==
    IF Len(p) >= 6 /\ SubSeq(p, 1, 6) = <<"/", "b", "l", "o", "g", "/">>
    THEN SubSeq(p, 7, Len(p))
    ELSE SubSeq(p, 2, Len(p))

\* a bare file name with an extension: no '/', '?' or '#', a '.' inside the name
BareFileName(u) ==
    /\ \A i \in 1..Len(u) : u[i] \notin {"/", "?", "#"}
    /\ \E i \in 2..(Len(u) - 1) : u[i] = "."

\* C5: the links '' and '/', and every link whose path is empty once query
\* and fragment are removed, resolve to 'index.html' from every source file.
C5_EmptyPathIsIndex ==
    (Normalized /\ BeforeQueryFragment(url) \in {<<>>, <<"/">>}) => normalized = index_html

\* C6 (as stated): a bare file name F with an extension, found in
\* root/D/page.html, resolves to 'D/F' for every directory D, directories
\* under 'blog/' included.
C6_RelativeToContainingDir ==
    (Normalized /\ BareFileName(url) /\ current_dir # <<>>)
        => normalized = JoinWith(current_dir \o <<url>>, <<"/">>)

\* C6 (amended): a bare file name F with an extension, found in
\* root/D/page.html, resolves to 'D/F' unless D is 'blog' or lies under
\* 'blog/'; there the leading 'blog/' is dropped: 'F' for D = 'blog' and
\* 'E/F' for D = 'blog/E'.
C6_RelativeToDirBlogStripped ==
    (Normalized /\ BareFileName(url) /\ current_dir # <<>>)
        => normalized =
              JoinWith((IF current_dir[1] = <<"b", "l", "o", "g">> THEN Tail(current_dir) ELSE current_dir)
                       \o <<url>>, <<"/">>)

\* C6 witness: 'b.css' found in root/blog/cat/page.html resolved to 'cat/b.css'
C6_Witness ==
    /\ Normalized
    /\ url = <<"b", ".", "c", "s", "s">>
    /\ current_dir = <<<<"b", "l", "o", "g">>, <<"c", "a", "t">>>>
    /\ normalized = <<"c", "a", "t", "/", "b", ".", "c", "s", "s">>

\* C7 (as stated): a root-absolute link P ending in '/' resolves to P without
\* its '/blog/' or single '/' prefix followed by 'index.html'; one whose
\* final segment has no '.' resolves to the stripped P followed by
\* '/index.html'.
C7_DirectoryIndex ==
    (Normalized /\ StartsWith(url, <<"/">>)) =>
        /\ EndsWith(url, <<"/">>) => normalized = WithoutRootPrefix(url) \o index_html
        /\ (FinalSegment(url) # <<>> /\ ~HasChar(FinalSegment(url), "."))
              => normalized = WithoutRootPrefix(url) \o <<"/", "i", "n", "d", "e", "x", ".", "h", "t", "m", "l">>

\* C7 (amended): the same, for root-absolute links P without '?' or '#',
\* except that P = '//' and P = '/blog//' (only '/' is left once the prefix
\* is removed) resolve to 'index.html'.
C7_DirectoryIndexAmended ==
    (/\ Normalized
     /\ StartsWith(url, <<"/">>)
     /\ ~HasChar(url, "?")
     /\ ~HasChar(url, "#")) =>
        /\ EndsWith(url, <<"/">>) =>
              normalized = IF WithoutRootPrefix(url) = <<"/">> THEN index_html
                           ELSE WithoutRootPrefix(url) \o index_html
        /\ (FinalSegment(url) # <<>> /\ ~HasChar(FinalSegment(url), "."))
              => normalized = WithoutRootPrefix(url) \o <<"/", "i", "n", "d", "e", "x", ".", "h", "t", "m", "l">>

\* C7 witness: '/blog/a/' resolved to 'a/index.html'
C7_Witness ==
    /\ Normalized
    /\ url = <<"/", "b", "l", "o", "g", "/", "a", "/">>
    /\ normalized = <<"a", "/", "i", "n", "d", "e", "x", ".", "h", "t", "m", "l">>

\* C8: for an internal link, a result other than None never begins with '/'.
C8_NoLeadingSeparator ==
    (/\ Normalized
     /\ ~is_internal_link_raises(url)
     /\ is_internal_link(url)
     /\ normalized # None) => ~StartsWith(normalized, <<"/">>)

\* C10: query string and fragment do not change the result: a link resolves
\* to what the link cut at its first '?' or '#' resolves to.
C10_QueryFragmentIgnored ==
    Normalized => normalized = normalize_path(BeforeQueryFragment(url), current_dir)

\* C10 witness: a link carrying a fragment followed by a query, resolved to a path
C10_Witness ==
    /\ Normalized
    /\ url = <<"a", "/", "b", ".", "c", "s", "s", "#", "f", "?", "q">>
    /\ current_dir = <<<<"s", "u", "b">>>>
    /\ normalized = <<"s", "u", "b", "/", "a", "/", "b", ".", "c", "s", "s">>

(***************************************************************************)
(* The checking loop: main() of check_broken_links.py (the loop of         *)
(* analyze_broken_links.py is the same up to the report).                  *)
(***************************************************************************)
\* directories of the site that hold an html file, in os.walk order
WalkDirs == <<<<>>, <<<<"s", "u", "b">>>>>>

\* attributes a generated page is written from
PageAttrs == {
    <<"h", "r", "e", "f", "=", "\"", "#", "f", "\"">>,
    <<"h", "r", "e", "f", "=", "\"", "h", "t", "t", "p", "s", ":", "/", "/", "e", "v", "i", "l", ".", "o", "r", "g", "/", "a", "\"">>,
    <<"s", "r", "c", "=", "\"", "b", ".", "c", "s", "s", "\"">>,
    <<"h", "r", "e", "f", "=", "\"", ".", ".", "/", "b", ".", "c", "s", "s", "\"">>,
    <<"h", "r", "e", "f", "=", "\"", "/", "/", "a", "/", "b", ".", "c", "s", "s", "\"">>,
    <<"h", "r", "e", "f", "=", "\"", "h", "t", "t", "p", ":", "/", "/", "[", "x", "\"">>
}

\* text of a generated page: up to MaxLinks attributes separated by spaces
PageTexts == {JoinWith(attrs, <<" ">>) : attrs \in SeqsUpTo(PageAttrs, MaxLinks)}

\* what extract_links_from_html finds in each generated page
PageMatches == [text \in PageTexts |-> LinkMatches(text)]
PageLinks == [text \in PageTexts |-> extract_links_from_html(text)]

\* files other than the html pages that the site may hold, as names below the drive root
OtherFiles == {
    {},
    {site_root \o <<<<"b", ".", "c", "s", "s">>>>},
    {site_root \o <<<<"s", "u", "b">>, <<"b", ".", "c", "s", "s">>>>, <<<<"a">>, <<"b", ".", "c", "s", "s">>>>}
}

\* Path.exists(): a file of the tree, or a directory above one
Exists(abs) ==
    \E f \in site_files : Len(f) >= Len(abs) /\ SubSeq(f, 1, Len(abs)) = abs

\* site_root / normalized_path: a rooted path replaces site_root
FullPath(np) ==
    IF StartsWith(np, <<"/">>) THEN Resolve(<<>>, PathParts(np))
    ELSE Resolve(<<>>, site_root \o PathParts(np))

\* check_file_exists(normalized_path, site_root)
check_file_exists(np) == Exists(FullPath(np))

\* The filter of main that lets every extracted link through.
InternalLinksUnfiltered(ls) == ls

\* internal_links = [link for link in links if is_internal_link(link)]
InternalLinks(ls) == SelectSeq(ls, is_internal_link)

\* if not normalized_path: continue
SkipsLink(np) == np = None \/ np = <<>>

InitMain ==
    /\ pc = "main"
    /\ site_files \in {others \cup {site_root \o WalkDirs[i] \o <<<<"p", "a", "g", "e", ".", "h", "t", "m", "l">>>> : i \in ds} :
                          others \in OtherFiles, ds \in SUBSET (1..Len(WalkDirs))}
    /\ html_files = <<>>
    /\ file_index = 0
    /\ internal_links = <<>>
    /\ link_index = 0
    /\ total_links_checked = 0
    /\ normalize_calls = <<>>
    /\ exists_calls = <<>>
    /\ broken_links = <<>>
    /\ ExtractIdle
    /\ ResolveIdle
    /\ ScriptsIdle

\* site_root.exists() is false: main prints a message and returns
MainNoSite ==
    /\ pc = "main"
    /\ ~Exists(site_root)
    /\ pc' = "done"
    /\ UNCHANGED <<mainVars, extractVars, resolveVars>>
    /\ UNCHANGED scriptVars

\* os.walk(site_root) collects the html files
MainWalk ==
    /\ pc = "main"
    /\ Exists(site_root)
    /\ html_files' = SelectSeq([i \in 1..Len(WalkDirs) |-> i],
                               LAMBDA i : Exists(site_root \o WalkDirs[i] \o <<<<"p", "a", "g", "e", ".", "h", "t", "m", "l">>>>))
    /\ file_index' = 1
    /\ pc' = "scan"
    /\ UNCHANGED <<site_files, internal_links, link_index, total_links_checked,
                   normalize_calls, exists_calls, broken_links, extractVars, resolveVars>>
    /\ UNCHANGED scriptVars

CurrentFile == html_files[file_index]

\* extract_links_from_html(html_file) and the internal-link filter, for the next
\* file; the text of the file is whatever the read finds, or the read fails
ScanFile ==
    /\ pc = "scan"
    /\ file_index <= Len(html_files)
    /\ \E text \in PageTexts, failed \in BOOLEAN :
          LET ls == IF failed THEN <<>> ELSE PageLinks[text]
          IN  /\ \A k \in 1..Len(ls) : ~is_internal_link_raises(ls[k])
              /\ content' = text
              /\ read_failed' = failed
              /\ matches' = IF failed THEN <<>> ELSE PageMatches[text]
              /\ links' = ls
              /\ internal_links' = InternalLinks(ls)
    /\ link_index' = 1
    /\ pc' = "links"
    /\ UNCHANGED <<site_files, html_files, file_index, total_links_checked,
                   normalize_calls, exists_calls, broken_links, resolveVars>>
    /\ UNCHANGED scriptVars

\* is_internal_link raises inside the filter: nothing catches it, main ends
ScanFileRaises ==
    /\ pc = "scan"
    /\ file_index <= Len(html_files)
    /\ \E text \in PageTexts :
          LET ls == PageLinks[text]
          IN  /\ \E k \in 1..Len(ls) : is_internal_link_raises(ls[k])
              /\ content' = text
              /\ read_failed' = FALSE
              /\ matches' = PageMatches[text]
              /\ links' = ls
    /\ pc' = "aborted"
    /\ UNCHANGED <<mainVars, resolveVars>>
    /\ UNCHANGED scriptVars

\* one turn of `for link in internal_links`
CheckLink ==
    /\ pc = "links"
    /\ link_index <= Len(internal_links)
    /\ LET link == internal_links[link_index]
           np == normalize_path(link, WalkDirs[CurrentFile])
       IN  /\ total_links_checked' = total_links_checked + 1
           /\ normalize_calls' = Append(normalize_calls,
                  [file |-> CurrentFile, link |-> link, result |-> np])
           /\ IF SkipsLink(np)
              THEN UNCHANGED <<exists_calls, broken_links>>
              ELSE /\ exists_calls' = Append(exists_calls,
                          [file |-> CurrentFile, link |-> link, path |-> np])
                   /\ broken_links' =
                          IF check_file_exists(np) THEN broken_links
                          ELSE Append(broken_links,
                                   [file |-> CurrentFile, original_link |-> link,
                                    normalized_path |-> np])
    /\ link_index' = link_index + 1
    /\ UNCHANGED <<pc, site_files, html_files, file_index, internal_links,
                   extractVars, resolveVars>>
    /\ UNCHANGED scriptVars

\* the inner loop is exhausted: on to the next html file
NextFile ==
    /\ pc = "links"
    /\ link_index > Len(internal_links)
    /\ file_index' = file_index + 1
    /\ pc' = "scan"
    /\ UNCHANGED <<site_files, html_files, internal_links, link_index,
                   total_links_checked, normalize_calls, exists_calls, broken_links,
                   extractVars, resolveVars>>
    /\ UNCHANGED scriptVars

\* every file is scanned: the report is printed
Report ==
    /\ pc = "scan"
    /\ file_index > Len(html_files)
    /\ pc' = "done"
    /\ UNCHANGED <<mainVars, extractVars, resolveVars>>
    /\ UNCHANGED scriptVars

Next ==
    \/ MainNoSite
    \/ MainWalk
    \/ ScanFile
    \/ ScanFileRaises
    \/ CheckLink
    \/ NextFile
    \/ Report

Spec == InitMain /\ [][Next]_vars

(***************************************************************************)
(* Claims about the checking loop (checked under Spec).                    *)
(***************************************************************************)
ClassifiedInternal(link) == ~is_internal_link_raises(link) /\ is_internal_link(link)

\* a relative link that, joined to the directory of its source file and
\* resolved, lies outside the site root
EscapesRoot(link, dir) ==
    /\ ~IsAbsoluteUrl(link)
    /\ ~StartsWith(BeforeQueryFragment(link), <<"/">>)
    /\ ~IsUnderRoot(ResolvedLocation(BeforeQueryFragment(link), dir))

\* C4: a link that is_internal_link classifies as not internal is never
\* handed to normalize_path or to check_file_exists, and never appears in the
\* broken-link report.
C4_ExternalLinksNeverResolved ==
    /\ \A k \in 1..Len(normalize_calls) : ClassifiedInternal(normalize_calls[k].link)
    /\ \A k \in 1..Len(exists_calls) : ClassifiedInternal(exists_calls[k].link)
    /\ \A k \in 1..Len(broken_links) : ClassifiedInternal(broken_links[k].original_link)
    /\ pc = "links" =>
          \A k \in 1..Len(links) :
              ~ClassifiedInternal(links[k]) =>
                  \A j \in 1..Len(internal_links) : internal_links[j] # links[k]

\* C4 witness: a page holding a link that is not internal and an internal
\* one has been worked through, the internal link resolved and reported
C4_Witness ==
    /\ pc = "links"
    /\ link_index > Len(internal_links)
    /\ \E k \in 1..Len(links) : ~ClassifiedInternal(links[k])
    /\ \E k \in 1..Len(normalize_calls) : normalize_calls[k].file = CurrentFile
    /\ \E k \in 1..Len(broken_links) : broken_links[k].file = CurrentFile

\* C9: a relative link that resolves outside the site root gets None from
\* normalize_path, and main skips it: no existence check, no broken-link record.
C9_EscapingLinkSkipped ==
    \A k \in 1..Len(normalize_calls) :
        LET c == normalize_calls[k]
        IN  EscapesRoot(c.link, WalkDirs[c.file]) =>
                /\ c.result = None
                /\ \A j \in 1..Len(exists_calls) :
                      ~(exists_calls[j].file = c.file /\ exists_calls[j].link = c.link)
                /\ \A j \in 1..Len(broken_links) :
                      ~(broken_links[j].file = c.file /\ broken_links[j].original_link = c.link)

\* C9 witness: '../b.css' in the page of the root directory was resolved to
\* None and the run went on to its end
C9_Witness ==
    /\ pc = "done"
    /\ \E k \in 1..Len(normalize_calls) :
          /\ normalize_calls[k].link = <<".", ".", "/", "b", ".", "c", "s", "s">>
          /\ WalkDirs[normalize_calls[k].file] = <<>>
          /\ EscapesRoot(normalize_calls[k].link, <<>>)
          /\ normalize_calls[k].result = None
    /\ total_links_checked > Len(exists_calls)


(***************************************************************************)
(* Broken-Link Categorizer: categorize_broken_link of                      *)
(* analyze_broken_links.py.                                                *)
(***************************************************************************)
MaxDots == 3       \* leading '../' segments of a generated broken link
MaxPieces == 2     \* further pieces of a generated broken link

\* s.count(p): non-overlapping occurrences of p in s, scanning from position i
RECURSIVE Count(_, _, _)
Count(s, p, i) ==
    IF i + Len(p) - 1 > Len(s) THEN 0
    ELSE IF SubSeq(s, i, i + Len(p) - 1) = p THEN 1 + Count(s, p, i + Len(p))
    ELSE Count(s, p, i + 1)

url_encoded == <<"u", "r", "l", "_", "e", "n", "c", "o", "d", "e", "d">>
wordpress_specific == <<"w", "o", "r", "d", "p", "r", "e", "s", "s", "_", "s", "p", "e", "c", "i", "f", "i", "c">>
deep_relative_path == <<"d", "e", "e", "p", "_", "r", "e", "l", "a", "t", "i", "v", "e", "_", "p", "a", "t", "h">>
static_asset == <<"s", "t", "a", "t", "i", "c", "_", "a", "s", "s", "e", "t">>
wordpress_api == <<"w", "o", "r", "d", "p", "r", "e", "s", "s", "_", "a", "p", "i">>
rss_feed == <<"r", "s", "s", "_", "f", "e", "e", "d">>
other == <<"o", "t", "h", "e", "r">>

\* '%3F' in link or '%3D' in link or '%3A' in link or '%2F' in link
UrlEncodedTest(l) ==
    \/ Contains(l, <<"%", "3", "F">>)
    \/ Contains(l, <<"%", "3", "D">>)
    \/ Contains(l, <<"%", "3", "A">>)
    \/ Contains(l, <<"%", "2", "F">>)

\* 'wp-content' in link or 'wp-includes' in link or 'wp-json' in link
WordpressTest(l) ==
    \/ Contains(l, <<"w", "p", "-", "c", "o", "n", "t", "e", "n", "t">>)
    \/ Contains(l, <<"w", "p", "-", "i", "n", "c", "l", "u", "d", "e", "s">>)
    \/ Contains(l, <<"w", "p", "-", "j", "s", "o", "n">>)

DeepRelativeCountOnly(l) == Count(l, <<".", ".", "/">>, 1) > 2

\* link.startswith('../../') or link.count('../') > 2
DeepRelativeTest(l) ==
    \/ StartsWith(l, <<".", ".", "/", ".", ".", "/">>)
    \/ Count(l, <<".", ".", "/">>, 1) > 2

\* link.endswith('.css') or link.endswith('.js')
StaticAssetTest(l) == EndsWith(l, <<".", "c", "s", "s">>) \/ EndsWith(l, <<".", "j", "s">>)

\* 'xmlrpc.php' in link or 'rsd' in link
WordpressApiTest(l) == Contains(l, <<"x", "m", "l", "r", "p", "c", ".", "p", "h", "p">>) \/ Contains(l, <<"r", "s", "d">>)

\* 'feed' in link
RssFeedTest(l) == Contains(l, <<"f", "e", "e", "d">>)

categorize_wordpress_first(l) ==
    IF WordpressTest(l) THEN wordpress_specific
    ELSE IF UrlEncodedTest(l) THEN url_encoded
    ELSE IF DeepRelativeTest(l) THEN deep_relative_path
    ELSE IF StaticAssetTest(l) THEN static_asset
    ELSE IF WordpressApiTest(l) THEN wordpress_api
    ELSE IF RssFeedTest(l) THEN rss_feed
    ELSE other

categorize_broken_link(l) ==
    IF UrlEncodedTest(l) THEN url_encoded
    ELSE IF WordpressTest(l) THEN wordpress_specific
    ELSE IF DeepRelativeTest(l) THEN deep_relative_path
    ELSE IF StaticAssetTest(l) THEN static_asset
    ELSE IF WordpressApiTest(l) THEN wordpress_api
    ELSE IF RssFeedTest(l) THEN rss_feed
    ELSE other

\* Generated broken links: an optional directory, some '../' segments, then
\* pieces that trigger the rules (and near misses of them).
RECURSIVE Dots(_)
Dots(k) == IF k = 0 THEN <<>> ELSE <<".", ".", "/">> \o Dots(k - 1)

LinkPieces ==
    { <<"%", "3", "F">>, <<"%", "3", "D">>, <<"%", "3", "A">>, <<"%", "2", "F">>, <<"%", "3", "a">>, <<"%", "2", "6">>,
      <<"w", "p", "-", "c", "o", "n", "t", "e", "n", "t", "/">>, <<"w", "p", "-", "i", "n", "c", "l", "u", "d", "e", "s", "/">>, <<"w", "p", "-", "j", "s", "o", "n">>,
      <<"t", "a", "g", "/", "x", ".", "h", "t", "m", "l">>, <<"a", ".", "c", "s", "s">>, <<"b", ".", "j", "s">>, <<".", "c", "s", "s", "?", "v">>,
      <<"x", "m", "l", "r", "p", "c", ".", "p", "h", "p">>, <<"r", "s", "d">>, <<"f", "e", "e", "d">>, <<"f", "e", "e">> }

RECURSIVE Flatten(_)
Flatten(ss) ==
    IF ss = <<>> THEN <<>>
    ELSE IF Len(ss) = 1 THEN ss[1]
    ELSE Flatten(SubSeq(ss, 1, Len(ss) \div 2))
             \o Flatten(SubSeq(ss, Len(ss) \div 2 + 1, Len(ss)))

BrokenLinks ==
    { lead \o Dots(k) \o Flatten(ps) :
        lead \in { <<>>, <<"x", "/">> },
        k \in 0..MaxDots,
        ps \in SeqsUpTo(LinkPieces, MaxPieces) }

InitCategorize ==
    /\ pc = "categorize"
    /\ categorized_link \in BrokenLinks
    /\ category = <<>>
    /\ CheckerIdle
    /\ CommandIdle
    /\ FixIdle
    /\ ToolsIdle

CategorizeLink ==
    /\ pc = "categorize"
    /\ category' = categorize_broken_link(categorized_link)
    /\ pc' = "categorized"
    /\ UNCHANGED <<categorized_link, checkerVars, commandVars, fixVars, toolVars>>

NextCategorize == CategorizeLink

SpecCategorize == InitCategorize /\ [][NextCategorize]_vars

(***************************************************************************)
(* Claims about the Broken-Link Categorizer (checked under                 *)
(* SpecCategorize).                                                        *)
(***************************************************************************)
Categorized == pc = "categorized"

Categories ==
    <<url_encoded, wordpress_specific, deep_relative_path, static_asset,
      wordpress_api, rss_feed, other>>

\* the tests of the spec's rule list, in its order; the last one always holds
RuleHolds(i, l) ==
    CASE i = 1 -> UrlEncodedTest(l)
      [] i = 2 -> WordpressTest(l)
      [] i = 3 -> DeepRelativeTest(l)
      [] i = 4 -> StaticAssetTest(l)
      [] i = 5 -> WordpressApiTest(l)
      [] i = 6 -> RssFeedTest(l)
      [] OTHER -> TRUE

\* C11: every link receives exactly one of the seven categories, namely the
\* one of the first rule (in the order url_encoded, wordpress_specific,
\* deep_relative_path, static_asset, wordpress_api, rss_feed, other) whose
\* test the link satisfies; in particular a link containing %3F, %3D, %3A or
\* %2F is url_encoded whatever later rules it also satisfies.
C11_FirstMatchWins ==
    Categorized =>
        /\ Cardinality({i \in 1..7 : category = Categories[i]}) = 1
        /\ \A i \in 1..7 :
              category = Categories[i] <=>
                  /\ RuleHolds(i, categorized_link)
                  /\ \A j \in 1..(i - 1) : ~RuleHolds(j, categorized_link)
        /\ UrlEncodedTest(categorized_link) => category = url_encoded

C11_Witness ==
    /\ Categorized
    /\ Contains(categorized_link, <<"%", "3", "A">>)
    /\ WordpressTest(categorized_link)
    /\ DeepRelativeTest(categorized_link)
    /\ category = url_encoded

NoEarlierRule(l) == ~UrlEncodedTest(l) /\ ~WordpressTest(l)

\* C12 (as claimed): deep_relative_path is returned exactly for the links
\* that match no earlier rule and contain three or more '../' segments.
C12_ThreeOrMoreSegments ==
    Categorized =>
        (category = deep_relative_path <=>
            /\ NoEarlierRule(categorized_link)
            /\ Count(categorized_link, <<".", ".", "/">>, 1) >= 3)

\* C12 (amended): deep_relative_path is returned exactly for the links that
\* match no earlier rule and either begin with '../../' or contain three or
\* more '../' segments.
C12_TwoLeadingOrThreeSegments ==
    Categorized =>
        (category = deep_relative_path <=>
            /\ NoEarlierRule(categorized_link)
            /\ \/ StartsWith(categorized_link, <<".", ".", "/", ".", ".", "/">>)
               \/ Count(categorized_link, <<".", ".", "/">>, 1) >= 3)

C12_Witness ==
    /\ Categorized
    /\ categorized_link = <<".", ".", "/", ".", ".", "/", "t", "a", "g", "/", "x", ".", "h", "t", "m", "l">>
    /\ category = deep_relative_path


(***************************************************************************)
(* Regular expressions as the fixer scripts use them (module re): a        *)
(* pattern is a sequence of items, each a literal text, a character class  *)
(* or an ordered alternation of literal texts, with a repetition range;    *)
(* matching is leftmost with backtracking in the priority order of re      *)
(* (a greedy item tries its longest repetition first, a lazy one its       *)
(* shortest).  flags is TRUE for re.IGNORECASE.                            *)
(***************************************************************************)
\* the element of a one-element set: names a value that is computed once
Only(S) == CHOOSE x \in S : TRUE

UpperCase == <<"A", "B", "C", "D", "E", "F", "G", "H", "I", "J", "K", "L", "M", "N", "O", "P", "Q", "R", "S", "T", "U", "V", "W", "X", "Y", "Z">>
LowerCase == <<"a", "b", "c", "d", "e", "f", "g", "h", "i", "j", "k", "l", "m", "n", "o", "p", "q", "r", "s", "t", "u", "v", "w", "x", "y", "z">>
Digits == {"0", "1", "2", "3", "4", "5", "6", "7", "8", "9"}

\* str.lower() on one character
LowerOf == [c \in {UpperCase[i] : i \in 1..26} |->
               LowerCase[CHOOSE i \in 1..26 : UpperCase[i] = c]]

LowerChar(c) == IF c \in DOMAIN LowerOf THEN LowerOf[c] ELSE c

FoldChar(c, flags) == IF flags THEN LowerChar(c) ELSE c

Lit(t) ==
    [kind |-> "lit", text |-> t, set |-> {}, neg |-> FALSE, alts |-> <<>>,
     min |-> 1, max |-> 1, greedy |-> TRUE]
\* [abc]
OneOf(S) == [Lit(<<>>) EXCEPT !.kind = "set", !.set = S]
\* [^abc]
NoneOf(S) == [OneOf(S) EXCEPT !.neg = TRUE]
\* (?:a|b|c)
Alt(ts) == [Lit(<<>>) EXCEPT !.kind = "alt", !.alts = ts]
\* x*  x+  x{n,}  x*?   (max = -1: no upper limit)
Star(it) == [it EXCEPT !.min = 0, !.max = -1]
Plus(it) == [it EXCEPT !.min = 1, !.max = -1]
AtLeast(it, n) == [it EXCEPT !.min = n, !.max = -1]
LazyStar(it) == [it EXCEPT !.min = 0, !.max = -1, !.greedy = FALSE]

NoMatch == <<-1>>

UnitWidth(it) == IF it.kind = "lit" THEN Len(it.text) ELSE 1

\* one repetition of a literal or class item after `pos` characters of s
UnitMatches(it, s, pos, flags) ==
    /\ pos + UnitWidth(it) <= Len(s)
    /\ IF it.kind = "lit"
       THEN \A i \in 1..Len(it.text) :
                FoldChar(s[pos + i], flags) = FoldChar(it.text[i], flags)
       ELSE (\E c \in it.set :
                FoldChar(c, flags) = FoldChar(s[pos + 1], flags)) # it.neg

\* the first number of repetitions of the item that does not fit after pos
FirstFail(it, s, pos, flags) ==
    CHOOSE c \in 0..(Len(s) - pos) :
        /\ ~UnitMatches(it, s, pos + c * UnitWidth(it), flags)
        /\ \A d \in 0..(c - 1) : UnitMatches(it, s, pos + d * UnitWidth(it), flags)

AtMost(max, n) == IF max >= 0 /\ max < n THEN max ELSE n

\* the most repetitions of the item that fit after pos, at most its max
MaxReps(it, s, pos, flags) == AtMost(it.max, FirstFail(it, s, pos, flags))

\* the offsets at which an item may end after pos, in the order in which
\* they are tried: each text of an alternation (-1 where it does not
\* match), each number of repetitions from the most (m) down for a greedy
\* item, from the least up for a lazy one
AltStops(it, s, pos, flags) ==
    [a \in 1..Len(it.alts) |->
        IF UnitMatches(Lit(it.alts[a]), s, pos, flags)
        THEN pos + Len(it.alts[a]) ELSE -1]

RepeatStops(it, pos, m) ==
    IF m < it.min THEN <<>>
    ELSE [n \in 1..(m - it.min + 1) |->
             pos + UnitWidth(it) * (IF it.greedy THEN m - n + 1 ELSE it.min + n - 1)]

Stops(it, s, pos, flags) ==
    IF it.kind = "alt" THEN AltStops(it, s, pos, flags)
    ELSE RepeatStops(it, pos, MaxReps(it, s, pos, flags))

\* one item: each stop that fits, with its place in the order of the tries
OneItem(stops) ==
    {[choice |-> <<n>>, ends |-> <<stops[n]>>] :
        n \in {m \in 1..Len(stops) : stops[m] >= 0}}

\* Every way items i..j of the pattern match after pos characters of s: the
\* offsets at which the items end, and the try chosen for each item.  (The
\* items are split in halves; a way through the first half is continued by
\* every way through the second half from where it ends.)
RECURSIVE Ways(_, _, _, _, _, _)

Continued(pat, mid, j, s, flags, left) ==
    UNION { {[choice |-> l.choice \o r.choice, ends |-> l.ends \o r.ends] :
                r \in Ways(pat, mid + 1, j, s, l.ends[Len(l.ends)], flags)} :
            l \in left }

Ways(pat, i, j, s, pos, flags) ==
    IF i = j THEN OneItem(Stops(pat[i], s, pos, flags))
    ELSE Continued(pat, (i + j) \div 2, j, s, flags,
                   Ways(pat, i, (i + j) \div 2, s, pos, flags))

\* the tries of a come before those of b: the first item where they differ
\* was tried earlier in a
TriedBefore(a, b) ==
    \E i \in 1..Len(a) : a[i] < b[i] /\ \A j \in 1..(i - 1) : a[j] = b[j]

\* a backtracking matcher finds the way whose tries come first
FirstWay(ways) ==
    IF ways = {} THEN NoMatch
    ELSE (CHOOSE w \in ways :
              \A o \in ways : o = w \/ TriedBefore(w.choice, o.choice)).ends

\* The pattern matched after pos characters of s: the offsets at which its
\* items end, or NoMatch.
MatchItems(pat, s, pos, flags) == FirstWay(Ways(pat, 1, Len(pat), s, pos, flags))

\* re.finditer / re.findall / re.sub: the leftmost non-overlapping matches,
\* each as [start, ends]: the offset where it starts and where its items end.
\* (No pattern of the scripts matches the empty string, and each begins with
\* a literal text, which is looked for first.)
Matched(tried) ==
    {[start |-> p, ends |-> tried[p]] : p \in {q \in DOMAIN tried : tried[q] # NoMatch}}

MatchesAt(pat, s, flags) ==
    Matched([p \in {q \in 0..(Len(s) - 1) : UnitMatches(pat[1], s, q, flags)} |->
                MatchItems(pat, s, p, flags)])

MatchEnd(m) == m.ends[Len(m.ends)]

RECURSIVE Leftmost(_, _)
Leftmost(found, pos) ==
    IF \A m \in found : m.start < pos THEN <<>>
    ELSE Only({ <<first>> \o Leftmost(found, MatchEnd(first)) :
                first \in {m \in found :
                              /\ m.start >= pos
                              /\ \A o \in found : o.start >= pos => m.start <= o.start} })

FindAll(pat, s, flags) == Leftmost(MatchesAt(pat, s, flags), 0)

\* match.group(0)
MatchText(s, m) == SubSeq(s, m.start + 1, MatchEnd(m))

\* the text of the group made of items i..j of the pattern
GroupText(s, m, i, j) ==
    SubSeq(s, (IF i = 1 THEN m.start ELSE m.ends[i - 1]) + 1, m.ends[j])

\* s with every match replaced by its replacement text
RECURSIVE Substitute(_, _, _, _)
Substitute(s, ms, reps, pos) ==
    IF ms = <<>> THEN SubSeq(s, pos + 1, Len(s))
    ELSE SubSeq(s, pos + 1, ms[1].start) \o reps[1]
            \o Substitute(s, Tail(ms), Tail(reps), MatchEnd(ms[1]))

\* A replacement template: its parts are literal texts and, for \N, the pair
\* <<i, j>> of the items that make up group N.
Expand(tpl, s, m) ==
    Flatten([p \in 1..Len(tpl) |->
                IF tpl[p].ref THEN GroupText(s, m, tpl[p].i, tpl[p].j)
                ELSE tpl[p].text])

T(t) == [ref |-> FALSE, text |-> t, i |-> 0, j |-> 0]
G(i, j) == [ref |-> TRUE, text |-> <<>>, i |-> i, j |-> j]

\* re.sub(pattern, replacement, content, flags=...)
Replaced(s, ms, tpl) ==
    Substitute(s, ms, [n \in 1..Len(ms) |-> Expand(tpl, s, ms[n])], 0)

re_sub(pat, tpl, s, flags) == Replaced(s, FindAll(pat, s, flags), tpl)

\* content.replace(old, new)
str_replace(s, old, new) ==
    Replaced(s, FindAll(<<Lit(old)>>, s, FALSE), <<T(new)>>)


(***************************************************************************)
(* fix_broken_links.py: the six fix functions of process_html_file.  Each  *)
(* returns the pair (content, fixes), here [content, fixes].               *)
(***************************************************************************)
NotQuote == NoneOf(Quotes)
AnyQuote == OneOf(Quotes)
NotClose == NoneOf({">"})

\* for pattern, replacement in table: content = re.sub(...); fixes += 1 when
\* the content changed
RECURSIVE ApplySubs(_, _, _, _)
ApplySubs(table, s, flags, n) ==
    IF n > Len(table) THEN [content |-> s, fixes |-> 0]
    ELSE Only({ [ApplySubs(table, new, flags, n + 1)
                    EXCEPT !.fixes = @ + (IF new # s THEN 1 ELSE 0)] :
                new \in {re_sub(table[n].pat, table[n].tpl, s, flags)} })

Sub(pat, tpl) == [pat |-> pat, tpl |-> tpl]

replacements ==
    << <<<<"%", "3", "F">>, <<"?">>>>, <<<<"%", "3", "D">>, <<"=">>>>, <<<<"%", "3", "A">>, <<":">>>>,
       <<<<"%", "2", "F">>, <<"/">>>>, <<<<"%", "2", "6">>, <<"&">>>>, <<<<"%", "2", "5">>, <<"%">>>>,
       <<<<"%", "2", "0">>, <<" ">>>>, <<<<"%", "2", "2">>, <<"\"">>>>, <<<<"%", "2", "7">>, <<"'">>>> >>

\* for encoded, decoded in replacements: content = content.replace(...)
RECURSIVE ApplyReplacements(_, _, _)
ApplyReplacements(table, s, n) ==
    IF n > Len(table) THEN [content |-> s, fixes |-> 0]
    ELSE Only({ [ApplyReplacements(table, new, n + 1)
                    EXCEPT !.fixes = @ + (IF new # s THEN 1 ELSE 0)] :
                new \in {str_replace(s, table[n][1], table[n][2])} })

fix_url_encoded_links(s) == ApplyReplacements(replacements, s, 1)

\* <link[^>]*href=["\'][^"\']*WORD[^"\']*["\'][^>]*>
LinkTagWith(word) ==
    <<Lit(<<"<", "l", "i", "n", "k">>), Star(NotClose), Lit(<<"h", "r", "e", "f", "=">>), AnyQuote, Star(NotQuote),
      Lit(word), Star(NotQuote), AnyQuote, Star(NotClose), Lit(<<">">>)>>

\* ATTR=["\']([^"\']*)/DIR/([^"\']*)["\']  ->  ATTR="blog/DIR/\2"
LocalWordpressPath(attr, dir) ==
    Sub(<<Lit(attr), AnyQuote, Star(NotQuote), Lit(<<"/">> \o dir \o <<"/">>),
          Star(NotQuote), AnyQuote>>,
        <<T(attr \o <<"\"", "b", "l", "o", "g", "/">> \o dir \o <<"/">>), G(5, 5), T(<<"\"">>)>>)

wordpress_fixes ==
    << Sub(<<Lit(<<"<", "l", "i", "n", "k">>), Star(NotClose), Lit(<<"r", "e", "l", "=">>), AnyQuote,
             Lit(<<"E", "d", "i", "t", "U", "R", "I">>), AnyQuote, Star(NotClose), Lit(<<">">>)>>, <<>>),
       Sub(LinkTagWith(<<"x", "m", "l", "r", "p", "c", ".", "p", "h", "p">>), <<>>),
       LocalWordpressPath(<<"h", "r", "e", "f", "=">>, <<"w", "p", "-", "c", "o", "n", "t", "e", "n", "t", "/", "u", "p", "l", "o", "a", "d", "s">>),
       LocalWordpressPath(<<"s", "r", "c", "=">>, <<"w", "p", "-", "c", "o", "n", "t", "e", "n", "t", "/", "u", "p", "l", "o", "a", "d", "s">>),
       LocalWordpressPath(<<"h", "r", "e", "f", "=">>, <<"w", "p", "-", "i", "n", "c", "l", "u", "d", "e", "s">>),
       LocalWordpressPath(<<"s", "r", "c", "=">>, <<"w", "p", "-", "i", "n", "c", "l", "u", "d", "e", "s">>),
       Sub(LinkTagWith(<<"w", "p", "-", "j", "s", "o", "n">>), <<>>) >>

fix_wordpress_paths(s) == ApplySubs(wordpress_fixes, s, TRUE, 1)

\* href=["\']([^"\']*index\.html\?p=\d+\.html)["\']
malformed_index_pattern ==
    <<Lit(<<"h", "r", "e", "f", "=">>), AnyQuote, Star(NotQuote), Lit(<<"i", "n", "d", "e", "x", ".", "h", "t", "m", "l", "?", "p", "=">>),
      Plus(OneOf(Digits)), Lit(<<".", "h", "t", "m", "l">>), AnyQuote>>

\* for match in matches: content = content.replace(f'href="{match}"',
\* 'href="index.html"'); fixes += 1
RECURSIVE ReplaceMalformed(_, _, _)
ReplaceMalformed(s, found, n) ==
    IF n > Len(found) THEN [content |-> s, fixes |-> 0]
    ELSE Only({ [ReplaceMalformed(new, found, n + 1) EXCEPT !.fixes = @ + 1] :
                new \in {str_replace(s, <<"h", "r", "e", "f", "=", "\"">> \o found[n] \o <<"\"">>,
                                     <<"h", "r", "e", "f", "=", "\"", "i", "n", "d", "e", "x", ".", "h", "t", "m", "l", "\"">>)} })

\* re.findall(pattern, content): group 1 of each match
Groups(s, ms, i, j) == [n \in 1..Len(ms) |-> GroupText(s, ms[n], i, j)]

fix_malformed_index_links(s) ==
    ReplaceMalformed(s, Groups(s, FindAll(malformed_index_pattern, s, FALSE), 3, 6), 1)

\* href=["\'](\.\./){3,}([^"\']*)["\']  ->  href="/\2"
excessive_pattern ==
    Sub(<<Lit(<<"h", "r", "e", "f", "=">>), AnyQuote, AtLeast(Lit(<<".", ".", "/">>), 3), Star(NotQuote),
          AnyQuote>>,
        <<T(<<"h", "r", "e", "f", "=", "\"", "/">>), G(4, 4), T(<<"\"">>)>>)

\* file_dir: the directories between site_root and the file (None when the
\* file is not under site_root, where relative_to raises ValueError)
fix_relative_paths(s, file_dir) ==
    LET depth == IF file_dir = None THEN 0 ELSE Len(file_dir)
    IN  IF depth > 0 THEN ApplySubs(<<excessive_pattern>>, s, FALSE, 1)
        ELSE [content |-> s, fixes |-> 0]

\* href=["\']([^"\']*)/([^/\."\']*)["\']
extension_pattern ==
    <<Lit(<<"h", "r", "e", "f", "=">>), AnyQuote, Star(NotQuote), Lit(<<"/">>),
      Star(NoneOf({"/", ".", "\"", "'"})), AnyQuote>>

add_extension_if_needed(s, m) ==
    LET path_part == GroupText(s, m, 3, 3)
        file_part == GroupText(s, m, 5, 5)
    IN  IF HasChar(file_part, ".") \/ file_part \in {<<"f", "e", "e", "d">>, <<"t", "r", "a", "c", "k", "b", "a", "c", "k">>}
        THEN MatchText(s, m)
        ELSE <<"h", "r", "e", "f", "=", "\"">> \o path_part \o <<"/">> \o file_part \o <<".", "h", "t", "m", "l", "\"">>

WithExtensions(s, ms) ==
    Substitute(s, ms, [n \in 1..Len(ms) |-> add_extension_if_needed(s, ms[n])], 0)

OneFixIfChanged(s, new) == [content |-> new, fixes |-> IF new # s THEN 1 ELSE 0]

fix_missing_extensions(s) ==
    OneFixIfChanged(s, WithExtensions(s, FindAll(extension_pattern, s, FALSE)))

\* ATTR=["\']https://www\.weathermakerscomfort\.com/REST([^"\']*)["\']
\*     ->  ATTR="/REST\1"
SiteUrl(attr, rest) ==
    Sub(<<Lit(attr), AnyQuote,
          Lit(<<"h", "t", "t", "p", "s", ":", "/", "/", "w", "w", "w", ".", "w", "e", "a", "t", "h", "e", "r", "m", "a", "k", "e", "r", "s", "c", "o", "m", "f", "o", "r", "t", ".", "c", "o", "m", "/">> \o rest),
          Star(NotQuote), AnyQuote>>,
        <<T(attr \o <<"\"", "/">> \o rest), G(4, 4), T(<<"\"">>)>>)

absolute_patterns ==
    << SiteUrl(<<"h", "r", "e", "f", "=">>, <<>>), SiteUrl(<<"s", "r", "c", "=">>, <<>>),
       SiteUrl(<<"h", "r", "e", "f", "=">>, <<"b", "l", "o", "g", "/">>), SiteUrl(<<"s", "r", "c", "=">>, <<"b", "l", "o", "g", "/">>) >>

fix_absolute_urls(s) == ApplySubs(absolute_patterns, s, FALSE, 1)

\* total_fixes += fixes, after one fix function of process_html_file
AddFixes(done, next) ==
    [content |-> next.content, fixes |-> done.fixes + next.fixes]

\* the i-th fix function that process_html_file applies
fix_broken_links_step(i, s, file_dir) ==
    CASE i = 1 -> fix_url_encoded_links(s)
      [] i = 2 -> fix_wordpress_paths(s)
      [] i = 3 -> fix_malformed_index_links(s)
      [] i = 4 -> fix_relative_paths(s, file_dir)
      [] i = 5 -> fix_missing_extensions(s)
      [] i = 6 -> fix_absolute_urls(s)

\* process_html_file from its i-th fix function on: each is applied to the
\* content the one before returned, and the fixes are added up
RECURSIVE fix_broken_links_from(_, _, _)
fix_broken_links_from(done, i, file_dir) ==
    IF i > 6 THEN done
    ELSE Only({ fix_broken_links_from(next, i + 1, file_dir) :
                next \in {AddFixes(done,
                              fix_broken_links_step(i, done.content, file_dir))} })

fix_broken_links_content(s, file_dir) ==
    fix_broken_links_from([content |-> s, fixes |-> 0], 1, file_dir)


(***************************************************************************)
(* fix_remaining_links.py: the five fix functions of process_html_file.    *)
(***************************************************************************)
Href == <<Lit(<<"h", "r", "e", "f", "=">>), AnyQuote>>

\* href=["\'](\.\./)*WORD([^"\']*)["\']  ->  href="/blog/WORD\2"
BlogListing(word) ==
    Sub(Href \o <<Star(Lit(<<".", ".", "/">>)), Lit(word), Star(NotQuote), AnyQuote>>,
        <<T(<<"h", "r", "e", "f", "=", "\"", "/", "b", "l", "o", "g", "/">> \o word), G(5, 5), T(<<"\"">>)>>)

\* href=["\'](\.\./)*WORD["\']  ->  href="/blog/WORD"
BlogFeed(word) ==
    Sub(Href \o <<Star(Lit(<<".", ".", "/">>)), Lit(word), AnyQuote>>,
        <<T(<<"h", "r", "e", "f", "=", "\"", "/", "b", "l", "o", "g", "/">> \o word \o <<"\"">>)>>)

blog_fixes ==
    << BlogListing(<<"t", "a", "g", "/">>), BlogListing(<<"c", "a", "t", "e", "g", "o", "r", "y", "/">>),
       BlogFeed(<<"c", "o", "m", "m", "e", "n", "t", "s", "/", "f", "e", "e", "d", "/">>), BlogFeed(<<"f", "e", "e", "d", "/">>),
       Sub(Href \o <<Plus(Lit(<<".", ".", "/">>)), Lit(<<"i", "n", "d", "e", "x", ".", "h", "t", "m", "l">>), AnyQuote>>,
           <<T(<<"h", "r", "e", "f", "=", "\"", "/", "b", "l", "o", "g", "/", "\"">>)>>) >>

\* relative_path: str(current_file_path.relative_to(site_root)), or None
\* when relative_to raises ValueError
fix_blog_relative_paths(s, relative_path) ==
    IF relative_path = None \/ ~StartsWith(relative_path, <<"b", "l", "o", "g">>)
    THEN [content |-> s, fixes |-> 0]
    ELSE ApplySubs(blog_fixes, s, FALSE, 1)

AnyChar == NoneOf({})

\* <!--\[if[^>]*\]>.*?WORD.*?<!\[endif\]-->  (re.DOTALL)
ConditionalComment(word) ==
    <<Lit(<<"<", "!", "-", "-", "[", "i", "f">>), Star(NotClose), Lit(<<"]", ">">>), LazyStar(AnyChar)>>
        \o word \o <<LazyStar(AnyChar), Lit(<<"<", "!", "[", "e", "n", "d", "i", "f", "]", "-", "-", ">">>)>>

asset_fixes ==
    << Sub(ConditionalComment(<<Lit(<<"<", "l", "i", "n", "k">>), Star(NotClose), Lit(<<"i", "e", ".", "c", "s", "s">>),
                                Star(NotClose), Lit(<<">">>)>>), <<>>),
       Sub(ConditionalComment(<<Lit(<<"h", "t", "m", "l", "5", "s", "h", "i", "v", ".", "j", "s">>)>>), <<>>),
       Sub(Href \o <<Star(NotQuote),
                     Lit(<<"/", "a", "s", "s", "e", "t", "s", "/", "t", "e", "m", "p", "l", "a", "t", "e", "s", "/", "m", "a", "i", "n", "/", "c", "s", "s", "/", "m", "a", "s", "t", "e", "r", ".", "c", "s", "s">>), AnyQuote>>,
           <<T(<<"h", "r", "e", "f", "=", "\"", "/", "a", "s", "s", "e", "t", "s", "/", "t", "e", "m", "p", "l", "a", "t", "e", "s", "/", "m", "a", "i", "n", "/", "c", "s", "s", "/", "r", "e", "s", "p", "o", "n", "s", "i", "v", "e", ".", "m", "i", "n", ".", "c", "s", "s", "\"">>)>>) >>

fix_missing_assets(s) == ApplySubs(asset_fixes, s, TRUE, 1)

\* ATTR=["\']wp-content/uploads/([^"\']*)["\']
\*     ->  ATTR="/blog/wp-content/uploads/\1"
UploadPath(attr) ==
    Sub(<<Lit(attr), AnyQuote, Lit(<<"w", "p", "-", "c", "o", "n", "t", "e", "n", "t", "/", "u", "p", "l", "o", "a", "d", "s", "/">>), Star(NotQuote),
          AnyQuote>>,
        <<T(attr \o <<"\"", "/", "b", "l", "o", "g", "/", "w", "p", "-", "c", "o", "n", "t", "e", "n", "t", "/", "u", "p", "l", "o", "a", "d", "s", "/">>), G(4, 4), T(<<"\"">>)>>)

wp_fixes ==
    << UploadPath(<<"s", "r", "c", "=">>), UploadPath(<<"h", "r", "e", "f", "=">>),
       Sub(<<Lit(<<"<", "l", "i", "n", "k">>), Star(NotClose), Lit(<<"w", "p", "-", "c", "o", "n", "t", "e", "n", "t", "/", "t", "h", "e", "m", "e", "s", "/">>),
             Star(NotClose), Lit(<<">">>)>>, <<>>) >>

fix_wordpress_content_links(s) == ApplySubs(wp_fixes, s, FALSE, 1)

index_patterns ==
    << Sub(Href \o <<Lit(<<"i", "n", "d", "e", "x", ".", "h", "t", "m", "l">>), AnyQuote>>, <<T(<<"h", "r", "e", "f", "=", "\"", "/", "b", "l", "o", "g", "/", "\"">>)>>) >>

fix_index_html_links(s) == ApplySubs(index_patterns, s, FALSE, 1)

\* href=["\']([^"\']*)TAIL["\']  ->  href="\1/feed/"
FeedExtension(tail) ==
    Sub(Href \o <<Star(NotQuote), Lit(tail), AnyQuote>>,
        <<T(<<"h", "r", "e", "f", "=", "\"">>), G(3, 3), T(<<"/", "f", "e", "e", "d", "/", "\"">>)>>)

feed_fixes == << FeedExtension(<<"/", "f", "e", "e", "d", "/", ".", "h", "t", "m", "l">>), FeedExtension(<<"/", "f", "e", "e", "d", ".", "h", "t", "m", "l">>) >>

fix_feed_extensions(s) == ApplySubs(feed_fixes, s, FALSE, 1)

fix_remaining_links_step(i, s, relative_path) ==
    CASE i = 1 -> fix_blog_relative_paths(s, relative_path)
      [] i = 2 -> fix_missing_assets(s)
      [] i = 3 -> fix_wordpress_content_links(s)
      [] i = 4 -> fix_index_html_links(s)
      [] i = 5 -> fix_feed_extensions(s)

RECURSIVE fix_remaining_links_from(_, _, _)
fix_remaining_links_from(done, i, relative_path) ==
    IF i > 5 THEN done
    ELSE Only({ fix_remaining_links_from(next, i + 1, relative_path) :
                next \in {AddFixes(done,
                              fix_remaining_links_step(i, done.content, relative_path))} })

fix_remaining_links_content(s, relative_path) ==
    fix_remaining_links_from([content |-> s, fixes |-> 0], 1, relative_path)

(***************************************************************************)
(* fix_paths_to_absolute.py: convert_relative_to_absolute_paths.           *)
(***************************************************************************)
\* ATTR"(\.\./)+WORD  ->  ATTR"/WORD
RootAsset(attr, word) ==
    Sub(<<Lit(attr \o <<"\"">>), Plus(Lit(<<".", ".", "/">>)), Lit(word)>>,
        <<T(attr \o <<"\"", "/">> \o word)>>)

\* ATTR"(\.\./)+([^"]*\.(?:css|js|ico|png|jpg|svg))"  ->  ATTR"/\2"
RootFile(attr) ==
    Sub(<<Lit(attr \o <<"\"">>), Plus(Lit(<<".", ".", "/">>)), Star(NoneOf({"\""})),
          Lit(<<".">>),
          Alt(<<<<"c", "s", "s">>, <<"j", "s">>, <<"i", "c", "o">>, <<"p", "n", "g">>, <<"j", "p", "g">>, <<"s", "v", "g">>>>),
          Lit(<<"\"">>)>>,
        <<T(attr \o <<"\"", "/">>), G(3, 5), T(<<"\"">>)>>)

path_fixes ==
    << RootAsset(<<"h", "r", "e", "f", "=">>, <<"a", "s", "s", "e", "t", "s", "/">>), RootAsset(<<"s", "r", "c", "=">>, <<"a", "s", "s", "e", "t", "s", "/">>),
       RootAsset(<<"h", "r", "e", "f", "=">>, <<"a", "p", "p", "l", "e", "-", "t", "o", "u", "c", "h", "-", "i", "c", "o", "n">>),
       RootAsset(<<"h", "r", "e", "f", "=">>, <<"f", "a", "v", "i", "c", "o", "n">>),
       RootFile(<<"h", "r", "e", "f", "=">>), RootFile(<<"s", "r", "c", "=">>) >>

fix_paths_to_absolute_content(s) == ApplySubs(path_fixes, s, FALSE, 1)

(***************************************************************************)
(* fix_wordpress_filename_references.py.                                   *)
(***************************************************************************)
Version == Plus(OneOf(Digits \cup {"."}))

\* NAME\?ver=([0-9\.]+)TAIL  ->  NAME_ver_\1SUFFIX
VersionedFile(name, tail, suffix) ==
    Sub(<<Lit(name \o <<"?", "v", "e", "r", "=">>), Version>> \o tail,
        <<T(name \o <<"_", "v", "e", "r", "_">>), G(2, 2), T(suffix)>>)

wp_filename_fixes ==
    << VersionedFile(<<"s", "t", "y", "l", "e", ".", "m", "i", "n", ".", "c", "s", "s">>, <<Lit(<<".", "c", "s", "s">>)>>, <<".", "c", "s", "s">>),
       VersionedFile(<<"s", "t", "y", "l", "e", ".", "m", "i", "n", ".", "c", "s", "s">>, <<>>, <<".", "c", "s", "s">>),
       VersionedFile(<<"c", "o", "m", "m", "e", "n", "t", "-", "r", "e", "p", "l", "y", ".", "m", "i", "n", ".", "j", "s">>, <<>>, <<>>),
       VersionedFile(<<"w", "p", "-", "e", "m", "o", "j", "i", "-", "r", "e", "l", "e", "a", "s", "e", ".", "m", "i", "n", ".", "j", "s">>, <<>>, <<>>),
       VersionedFile(<<"j", "q", "u", "e", "r", "y", ".", "j", "s">>, <<>>, <<>>),
       VersionedFile(<<"j", "q", "u", "e", "r", "y", "-", "m", "i", "g", "r", "a", "t", "e", ".", "m", "i", "n", ".", "j", "s">>, <<>>, <<>>) >>

fix_wordpress_filename_content(s) == ApplySubs(wp_filename_fixes, s, FALSE, 1)

(***************************************************************************)
(* The fixer scripts run over a site: fix_broken_links.py,                 *)
(* fix_remaining_links.py, fix_paths_to_absolute.py and                    *)
(* fix_wordpress_filename_references.py.  The site holds its index page    *)
(* and one blog post; a script may be started again when it has finished.  *)
(***************************************************************************)
MaxFixItems == 1   \* broken pieces in the whole generated site
MaxRuns == 2       \* times the script is started

Scripts == {"fix_broken_links", "fix_remaining_links", "fix_paths_to_absolute",
            "fix_wordpress_filename_references"}

\* the command lines tried; argv[1] is sys.argv[0], the script
Argvs ==
    { <<"prog">>, <<"prog", "--execute">>, <<"prog", "--dry-run">>,
      <<"prog", "--Execute">>, <<"prog", "--dry-run", "--execute">>,
      <<"prog", "--execute", "--dry-run">> }

\* dry_run = len(sys.argv) < 2 or sys.argv[1] != "--execute"
DryRunAnyArgument(args) == ~\E i \in 2..Len(args) : args[i] = "--execute"

DryRun(args) == Len(args) < 2 \/ args[2] # "--execute"

\* the pages of the site, as their names below the site root, and
\* file_path.with_suffix('.html.backup') of a page whose name ends in .html
root_page == <<index_html>>
blog_post == <<<<"b", "l", "o", "g">>, <<"a">>, index_html>>
with_suffix_backup(path) ==
    [path EXCEPT ![Len(path)] = @ \o <<".", "b", "a", "c", "k", "u", "p">>]
SitePages == <<root_page, blog_post>>
SitePaths == {root_page, blog_post, with_suffix_backup(root_page),
              with_suffix_backup(blog_post)}

\* os.walk visits the root directory before blog/a; a directory's files
\* come in the order listed here
WalkOrder == <<root_page, with_suffix_backup(root_page),
               blog_post, with_suffix_backup(blog_post)>>

Front(path) == SubSeq(path, 1, Len(path) - 1)
FileName(path) == path[Len(path)]

\* the test each script's main applies to a file found by os.walk
Selected(sc, path) ==
    CASE sc = "fix_broken_links" -> EndsWith(FileName(path), <<".", "h", "t", "m", "l">>)
      [] sc = "fix_paths_to_absolute" ->
             /\ Len(path) > 1 /\ path[1] = <<"b", "l", "o", "g">>
             /\ FileName(path) = index_html
             /\ path # <<<<"b", "l", "o", "g">>, index_html>>
      [] OTHER -> /\ EndsWith(FileName(path), <<".", "h", "t", "m", "l">>)
                  /\ ~EndsWith(FileName(path), <<".", "b", "a", "c", "k", "u", "p">>)

HtmlFilesFound(sc, files) ==
    SelectSeq(WalkOrder, LAMBDA path : files[path] # None /\ Selected(sc, path))

\* the substitutions of the per-file function of each script: the content
\* to write and the number of fixes it returns
FixContent(sc, path, s) ==
    CASE sc = "fix_broken_links" -> fix_broken_links_content(s, Front(path))
      [] sc = "fix_remaining_links" ->
             fix_remaining_links_content(s, JoinWith(path, <<"/">>))
      [] sc = "fix_paths_to_absolute" -> fix_paths_to_absolute_content(s)
      [] OTHER -> fix_wordpress_filename_content(s)

\* broken pieces of a page, per script
BrokenLinkPieces ==
    { <<"<", "p", ">", "o", "k", "<", "/", "p", ">">>, <<"h", "r", "e", "f", "=", "\"", "%", "2", "5", "3", "F", "q", "\"">>, <<"h", "r", "e", "f", "=", "\"", "%", "2", "5", "2", "0", "\"">>,
      <<"<", "l", "i", "n", "k", " ", "r", "e", "l", "=", "'", "E", "d", "i", "t", "U", "R", "I", "'", " ", "h", "r", "e", "f", "=", "\"", "x", "\"", ">">>,
      <<"h", "r", "e", "f", "=", "\"", "i", "n", "d", "e", "x", ".", "h", "t", "m", "l", "?", "p", "=", "1", "2", ".", "h", "t", "m", "l", "\"">>, <<"h", "r", "e", "f", "=", "'", "b", "/", "i", "n", "d", "e", "x", ".", "h", "t", "m", "l", "?", "p", "=", "7", ".", "h", "t", "m", "l", "'">>,
      <<"h", "r", "e", "f", "=", "\"", ".", ".", "/", ".", ".", "/", ".", ".", "/", "a", ".", "h", "t", "m", "l", "\"">>, <<"h", "r", "e", "f", "=", "\"", "a", "/", "b", "\"">>,
      <<"s", "r", "c", "=", "'", "h", "t", "t", "p", "s", ":", "/", "/", "w", "w", "w", ".", "w", "e", "a", "t", "h", "e", "r", "m", "a", "k", "e", "r", "s", "c", "o", "m", "f", "o", "r", "t", ".", "c", "o", "m", "/", "b", "l", "o", "g", "/", "i", ".", "p", "n", "g", "'">> }

RemainingLinkPieces ==
    { <<"<", "p", ">", "o", "k", "<", "/", "p", ">">>, <<"h", "r", "e", "f", "=", "\"", ".", ".", "/", ".", ".", "/", "t", "a", "g", "/", "x", "/", "\"">>, <<"h", "r", "e", "f", "=", "\"", ".", ".", "/", "f", "e", "e", "d", "/", "\"">>,
      <<"<", "!", "-", "-", "[", "i", "f", " ", "I", "E", "]", ">", "<", "l", "i", "n", "k", " ", "h", "r", "e", "f", "=", "\"", "i", "e", ".", "c", "s", "s", "\"", ">", "<", "!", "[", "e", "n", "d", "i", "f", "]", "-", "-", ">">>,
      <<"s", "r", "c", "=", "\"", "w", "p", "-", "c", "o", "n", "t", "e", "n", "t", "/", "u", "p", "l", "o", "a", "d", "s", "/", "i", ".", "p", "n", "g", "\"">>, <<"h", "r", "e", "f", "=", "\"", "i", "n", "d", "e", "x", ".", "h", "t", "m", "l", "\"">>,
      <<"h", "r", "e", "f", "=", "\"", "a", "/", "f", "e", "e", "d", ".", "h", "t", "m", "l", "\"">> }

AbsolutePathPieces ==
    { <<"<", "p", ">", "o", "k", "<", "/", "p", ">">>, <<"h", "r", "e", "f", "=", "\"", ".", ".", "/", ".", ".", "/", "a", "s", "s", "e", "t", "s", "/", "a", ".", "c", "s", "s", "\"">>, <<"h", "r", "e", "f", "=", "\"", ".", ".", "/", "f", "a", "v", "i", "c", "o", "n", ".", "i", "c", "o", "\"">>,
      <<"s", "r", "c", "=", "\"", ".", ".", "/", "z", ".", "p", "n", "g", "\"">>, <<"s", "r", "c", "=", "'", ".", ".", "/", "z", ".", "p", "n", "g", "'">> }

FilenamePieces ==
    { <<"<", "p", ">", "o", "k", "<", "/", "p", ">">>, <<"s", "t", "y", "l", "e", ".", "m", "i", "n", ".", "c", "s", "s", "?", "v", "e", "r", "=", "6", ".", "0", ".", "9">>, <<"s", "t", "y", "l", "e", ".", "m", "i", "n", ".", "c", "s", "s", "?", "v", "e", "r", "=", "6", ".", "0", ".", "9", ".", "c", "s", "s">>,
      <<"j", "q", "u", "e", "r", "y", ".", "j", "s", "?", "v", "e", "r", "=", "1", ".", "1", "2">>, <<"c", "o", "m", "m", "e", "n", "t", "-", "r", "e", "p", "l", "y", ".", "m", "i", "n", ".", "j", "s", "?", "v", "e", "r", "=", "6", ".", "0", ".", "9">> }

PiecesOf(sc) ==
    CASE sc = "fix_broken_links" -> BrokenLinkPieces
      [] sc = "fix_remaining_links" -> RemainingLinkPieces
      [] sc = "fix_paths_to_absolute" -> AbsolutePathPieces
      [] OTHER -> FilenamePieces

\* the generated sites: each page holds some of the MaxFixItems pieces
PageLayouts(sc) ==
    { l \in [{root_page, blog_post} -> SeqsUpTo(PiecesOf(sc), MaxFixItems)] :
        Len(l[root_page]) + Len(l[blog_post]) <= MaxFixItems }

SiteOf(layout) ==
    [path \in SitePaths |->
        IF path \in DOMAIN layout THEN Flatten(layout[path]) ELSE None]

\* FixContent of every content a page can hold within MaxRuns runs
AlsoFixed(sc, path, before) ==
    before @@ [s \in {before[c].content : c \in DOMAIN before} \ DOMAIN before |->
                  FixContent(sc, path, s)]

RECURSIVE FixedWithin(_, _, _)
FixedWithin(sc, path, n) ==
    IF n = 1
    THEN [s \in {Flatten(ps) : ps \in SeqsUpTo(PiecesOf(sc), MaxFixItems)} |->
             FixContent(sc, path, s)]
    ELSE AlsoFixed(sc, path, FixedWithin(sc, path, n - 1))

Fixed ==
    [sc \in Scripts |-> [path \in {root_page, blog_post} |->
        FixedWithin(sc, path, MaxRuns)]]

\* the contents a page holding s can come to hold within n runs
RECURSIVE Reached(_, _, _)
Reached(results, s, n) ==
    IF n = 0 THEN {} ELSE {s} \cup Reached(results, results[s].content, n - 1)

ResultsFor(results, files) ==
    [path \in DOMAIN results |->
        [s \in Reached(results[path], files[path], MaxRuns) |-> results[path][s]]]

InitFix ==
    /\ pc = "fix_start"
    /\ \E results \in {Fixed} :
         /\ script \in Scripts
         /\ \E layout \in PageLayouts(script) :
              /\ disk = SiteOf(layout)
              /\ fix_results = ResultsFor(results[script], SiteOf(layout))
    /\ argv \in Argvs
    /\ dry_run = TRUE
    /\ run = 1
    /\ fix_files = <<>>
    /\ fix_index = 0
    /\ fix_call = <<>>
    /\ total_fixes_made = 0
    /\ files_with_fixes = 0
    /\ reports = <<>>
    /\ CheckerIdle
    /\ CategorizeIdle
    /\ ToolsIdle

\* the __main__ block and main() up to its loop over the files
FixMain ==
    /\ pc = "fix_start"
    /\ dry_run' = DryRun(argv)
    /\ fix_files' = HtmlFilesFound(script, disk)
    /\ fix_index' = 1
    /\ total_fixes_made' = 0
    /\ files_with_fixes' = 0
    /\ fix_call' = <<>>
    /\ pc' = "fix_loop"
    /\ UNCHANGED <<argv, script, disk, run, reports, fix_results,
                   checkerVars, categorizeVars, toolVars>>

FixFile == fix_files[fix_index]

\* what main does with the value the per-file function returned
Counted(fixes) ==
    /\ files_with_fixes' = IF fixes > 0 THEN files_with_fixes + 1 ELSE files_with_fixes
    /\ total_fixes_made' = IF fixes > 0 THEN total_fixes_made + fixes ELSE total_fixes_made
    /\ fix_index' = fix_index + 1

Call(original, new, fixes, wrote, raised) ==
    [file |-> FixFile, original_content |-> original, content |-> new,
     fixes |-> fixes, wrote |-> wrote, raised |-> raised]

WriteGuardIgnoresDryRun(original, new) == new # original

\* `if content != original_content and not dry_run:`
WriteGuard(original, new) == new # original /\ ~dry_run

\* only fix_broken_links copies the file to its .backup sibling before writing
MakesBackup(sc) == sc = "fix_broken_links"

\* one pass of the loop of main: the per-file function reads the file,
\* applies its substitutions, and writes the file back
ProcessFile ==
    /\ pc = "fix_loop"
    /\ fix_index <= Len(fix_files)
    /\ LET original == disk[FixFile]
           fixed == fix_results[FixFile][original]
           writes == WriteGuard(original, fixed.content)
       IN  /\ disk' = IF ~writes THEN disk
                      ELSE IF MakesBackup(script)
                      THEN [disk EXCEPT ![with_suffix_backup(FixFile)] = original,
                                        ![FixFile] = fixed.content]
                      ELSE [disk EXCEPT ![FixFile] = fixed.content]
           /\ fix_call' = Call(original, fixed.content, fixed.fixes, writes, FALSE)
           /\ Counted(fixed.fixes)
    /\ UNCHANGED <<pc, argv, dry_run, script, run, fix_files, reports, fix_results,
                   checkerVars, categorizeVars, toolVars>>

\* open() or read() raises: the except clause prints and returns 0
ProcessFileReadError ==
    /\ pc = "fix_loop"
    /\ fix_index <= Len(fix_files)
    /\ fix_call' = Call(None, None, 0, FALSE, TRUE)
    /\ Counted(0)
    /\ UNCHANGED <<pc, argv, dry_run, script, disk, run, fix_files, reports,
                   fix_results, checkerVars, categorizeVars, toolVars>>

\* opening the file for writing raises (after the backup copy, where one is
\* made): the except clause prints and returns 0
ProcessFileWriteError ==
    /\ pc = "fix_loop"
    /\ fix_index <= Len(fix_files)
    /\ LET original == disk[FixFile]
           fixed == fix_results[FixFile][original]
       IN  /\ WriteGuard(original, fixed.content)
           /\ disk' = IF MakesBackup(script)
                      THEN [disk EXCEPT ![with_suffix_backup(FixFile)] = original]
                      ELSE disk
           /\ fix_call' = Call(original, fixed.content, 0, FALSE, TRUE)
           /\ Counted(0)
    /\ UNCHANGED <<pc, argv, dry_run, script, run, fix_files, reports, fix_results,
                   checkerVars, categorizeVars, toolVars>>

\* the summary at the end of main
FixReport ==
    /\ pc = "fix_loop"
    /\ fix_index > Len(fix_files)
    /\ reports' = Append(reports, [files_with_fixes |-> files_with_fixes,
                                   total_fixes_made |-> total_fixes_made])
    /\ pc' = "fix_done"
    /\ UNCHANGED <<argv, dry_run, script, disk, run, fix_files, fix_index, fix_call,
                   total_fixes_made, files_with_fixes, fix_results,
                   checkerVars, categorizeVars, toolVars>>

\* the same command line is started once more
RunAgain ==
    /\ pc = "fix_done"
    /\ run < MaxRuns
    /\ run' = run + 1
    /\ pc' = "fix_start"
    /\ UNCHANGED <<argv, dry_run, script, disk, fix_files, fix_index, fix_call,
                   total_fixes_made, files_with_fixes, reports, fix_results,
                   checkerVars, categorizeVars, toolVars>>

NextFix ==
    \/ FixMain
    \/ ProcessFile
    \/ ProcessFileReadError
    \/ ProcessFileWriteError
    \/ FixReport
    \/ RunAgain

SpecFix == InitFix /\ [][NextFix]_vars

(***************************************************************************)
(* Claims about the fixer scripts.                                         *)
(***************************************************************************)
\* a call of the per-file function has just returned
FileProcessed == pc = "fix_loop" /\ fix_call # <<>>

\* the substituted content of the last call differs from the content read
ContentChanged == fix_call.content # fix_call.original_content

\* C13: the per-file operation of every fixer writes only when dry_run is
\* false and the substituted content differs from the content read; in every
\* other call no file of the site changes and no backup appears.
C13_WritesOnlyChangedInExecute ==
    [][disk' # disk =>
          /\ ~dry_run
          /\ fix_call'.content # fix_call'.original_content]_vars

\* a dry run came upon a page its substitutions change, and left it alone
C13_Witness ==
    /\ FileProcessed
    /\ dry_run
    /\ ContentChanged
    /\ ~fix_call.raised
    /\ disk[fix_call.file] = fix_call.original_content
    /\ disk[with_suffix_backup(fix_call.file)] = None


(***************************************************************************)
(* cleanup_blog_filenames.py: the files index.html_p_N.html of the blog    *)
(* directory are renamed to the path their canonical URL names.  Paths are *)
(* texts relative to the blog root.                                        *)
(***************************************************************************)
MaxPatternFiles == 2   \* files index.html_p_N.html in the blog directory

\* <meta property=["']og:url["'] content=["']([^"']+)["']
og_url_pattern ==
    <<Lit(<<"<", "m", "e", "t", "a", " ", "p", "r", "o", "p", "e", "r", "t", "y", "=">>), AnyQuote, Lit(<<"o", "g", ":", "u", "r", "l">>), AnyQuote,
      Lit(<<" ", "c", "o", "n", "t", "e", "n", "t", "=">>), AnyQuote, Plus(NotQuote), AnyQuote>>

\* <link rel=["']canonical["'] href=["']([^"']+)["']
canonical_pattern ==
    <<Lit(<<"<", "l", "i", "n", "k", " ", "r", "e", "l", "=">>), AnyQuote, Lit(<<"c", "a", "n", "o", "n", "i", "c", "a", "l">>), AnyQuote,
      Lit(<<" ", "h", "r", "e", "f", "=">>), AnyQuote, Plus(NotQuote), AnyQuote>>

\* re.search(pattern, content).group(1) unless it holds 'index.html%3Fp=';
\* None when there is no match or the URL is an encoded one
UsableUrl(s, found) ==
    IF found = <<>> THEN None
    ELSE IF Contains(GroupText(s, found[1], 7, 7), <<"i", "n", "d", "e", "x", ".", "h", "t", "m", "l", "%", "3", "F", "p", "=">>) THEN None
    ELSE GroupText(s, found[1], 7, 7)

FirstUsable(og_url, s) ==
    IF og_url # None THEN og_url
    ELSE UsableUrl(s, FindAll(canonical_pattern, s, FALSE))

extract_canonical_url(s) ==
    FirstUsable(UsableUrl(s, FindAll(og_url_pattern, s, FALSE)), s)

\* the path without its '/blog/' prefix, or else without its leading '/'
WithoutBlogPrefix(path) ==
    IF StartsWith(path, <<"/", "b", "l", "o", "g", "/">>) THEN SubSeq(path, 7, Len(path))
    ELSE IF StartsWith(path, <<"/">>) THEN SubSeq(path, 2, Len(path))
    ELSE path

WithIndexHtml(path) ==
    IF path = <<>> \/ path = <<"/">> THEN index_html
    ELSE IF ~EndsWith(path, <<".", "h", "t", "m", "l">>) /\ ~EndsWith(path, <<"/">>)
    THEN path \o <<"/", "i", "n", "d", "e", "x", ".", "h", "t", "m", "l">>
    ELSE IF EndsWith(path, <<"/">>) THEN path \o index_html
    ELSE path

\* url_to_filepath(url, blog_root) for an http(s) URL; None when urlparse raises
url_to_filepath(u) ==
    IF urlparse_raises(u) THEN None
    ELSE WithIndexHtml(WithoutBlogPrefix(urlparse_path(u)))

\* the directories above a path, nearest last: the path up to each '/'
Parents(path) == {SubSeq(path, 1, i - 1) : i \in {j \in 1..Len(path) : path[j] = "/"}}

\* blog_root.glob("index.html_p_*.html"): the files of the blog directory
\* itself whose name has this form
GlobMatches(name) ==
    /\ ~HasChar(name, "/")
    /\ Len(name) >= Len(<<"i", "n", "d", "e", "x", ".", "h", "t", "m", "l", "_", "p", "_">>) + Len(<<".", "h", "t", "m", "l">>)
    /\ StartsWith(name, <<"i", "n", "d", "e", "x", ".", "h", "t", "m", "l", "_", "p", "_">>)
    /\ EndsWith(name, <<".", "h", "t", "m", "l">>)

\* Path.exists(): a file or a directory of that name
PathExists(files, directories, path) ==
    \/ path \in DOMAIN files /\ files[path] # None
    \/ path \in directories

\* directory.mkdir(parents=True, exist_ok=True) raises when a file stands
\* where a directory is needed
MkdirRaises(files, path) == \E d \in Parents(path) : d \in DOMAIN files /\ files[d] # None

\* the blog directories after create_directory_structure(filepath, blog_root)
create_directory_structure(directories, path) == directories \cup Parents(path)

\* the generated blog: canonical URLs, the tags that carry them, pages
CanonicalUrls ==
    { <<"h", "t", "t", "p", "s", ":", "/", "/", "w", "w", "w", ".", "w", "e", "a", "t", "h", "e", "r", "m", "a", "k", "e", "r", "s", "c", "o", "m", "f", "o", "r", "t", ".", "c", "o", "m", "/", "b", "l", "o", "g", "/", "a", "/">>,
      <<"h", "t", "t", "p", "s", ":", "/", "/", "w", ".", "c", "o", "m", "/", "b", "/", "c">>,
      <<"h", "t", "t", "p", "s", ":", "/", "/", "w", ".", "c", "o", "m", "/", "b", "l", "o", "g", "/", "a", ".", "h", "t", "m", "l">>,
      <<"h", "t", "t", "p", "s", ":", "/", "/", "w", ".", "c", "o", "m", "/", "b", "l", "o", "g", "/">>,
      <<"h", "t", "t", "p", "s", ":", "/", "/", "w", ".", "c", "o", "m", "/", "b", "l", "o", "g", "/", "i", "n", "d", "e", "x", ".", "h", "t", "m", "l", "/", "x">>,
      <<"h", "t", "t", "p", ":", "/", "/", "[", "w", "/">> }

OgUrlTag(u) == <<"<", "m", "e", "t", "a", " ", "p", "r", "o", "p", "e", "r", "t", "y", "=", "\"", "o", "g", ":", "u", "r", "l", "\"", " ", "c", "o", "n", "t", "e", "n", "t", "=", "\"">> \o u \o <<"\"", ">">>
CanonicalTag(u) == <<"<", "l", "i", "n", "k", " ", "r", "e", "l", "=", "'", "c", "a", "n", "o", "n", "i", "c", "a", "l", "'", " ", "h", "r", "e", "f", "=", "'">> \o u \o <<"'", ">">>

BlogPages ==
    {OgUrlTag(u) : u \in CanonicalUrls}
        \cup { CanonicalTag(<<"h", "t", "t", "p", "s", ":", "/", "/", "w", ".", "c", "o", "m", "/", "b", "/", "c">>),
               OgUrlTag(<<"h", "t", "t", "p", "s", ":", "/", "/", "w", ".", "c", "o", "m", "/", "b", "l", "o", "g", "/", "i", "n", "d", "e", "x", ".", "h", "t", "m", "l", "%", "3", "F", "p", "=", "7">>)
                   \o CanonicalTag(<<"h", "t", "t", "p", "s", ":", "/", "/", "w", "w", "w", ".", "w", "e", "a", "t", "h", "e", "r", "m", "a", "k", "e", "r", "s", "c", "o", "m", "f", "o", "r", "t", ".", "c", "o", "m", "/", "b", "l", "o", "g", "/", "a", "/">>),
               <<"<", "p", ">", "o", "k", "<", "/", "p", ">">> }

DigitChars == <<"1", "2", "3", "4", "5", "6", "7", "8", "9">>
PatternFile(n) == <<"i", "n", "d", "e", "x", ".", "h", "t", "m", "l", "_", "p", "_">> \o <<DigitChars[n]>> \o <<".", "h", "t", "m", "l">>
PatternFiles == {PatternFile(n) : n \in 1..MaxPatternFiles}

post_a == <<"a", "/", "i", "n", "d", "e", "x", ".", "h", "t", "m", "l">>

\* every path of the generated blog that can come to hold a file
BlogPaths ==
    PatternFiles \cup {index_html, post_a}
        \cup ({url_to_filepath(u) : u \in CanonicalUrls} \ {None})

\* the path main plans for a file holding s: url_to_filepath of its canonical
\* URL, None when either function returns None
TargetOf(canonical_url) ==
    IF canonical_url = None THEN None ELSE url_to_filepath(canonical_url)

target_path(s) == TargetOf(extract_canonical_url(s))

\* the orders in which a directory listing can give the names of S
Orderings(S) ==
    {f \in [1..Cardinality(S) -> S] : \A i, j \in DOMAIN f : i # j => f[i] # f[j]}

InitCleanup ==
    /\ pc = "cleanup_start"
    /\ script = "cleanup_blog_filenames"
    /\ argv \in Argvs
    /\ dry_run = TRUE
    /\ \E pages \in [PatternFiles -> BlogPages \cup {None}], post \in {None, <<"<", "p", ">", "a", "<", "/", "p", ">">>} :
          /\ disk = [path \in BlogPaths |->
                        IF path \in PatternFiles THEN pages[path]
                        ELSE IF path = index_html THEN <<"<", "p", ">", "b", "l", "o", "g", "<", "/", "p", ">">>
                        ELSE IF path = post_a THEN post
                        ELSE None]
          /\ dirs = IF post = None THEN {} ELSE Parents(post_a)
    /\ run = 1
    /\ fix_files = <<>>
    /\ fix_index = 0
    /\ rename_operations = <<>>
    /\ failed_operations = <<>>
    /\ reports = <<>>
    /\ fix_call = <<>>
    /\ total_fixes_made = 0
    /\ files_with_fixes = 0
    /\ fix_results = [s \in BlogPages |-> target_path(s)]
    /\ CheckerIdle
    /\ CategorizeIdle
    /\ DuplicatesIdle
    /\ MappingIdle
    /\ FunctionIdle

cleanupFrame ==
    <<argv, script, run, fix_call, total_fixes_made, files_with_fixes, fix_results,
      checkerVars, categorizeVars, duplicateVars, mappingVars, functionVars>>

\* the __main__ block and main() up to its loop: the files found by glob,
\* in the order of the directory listing
CleanupMain ==
    /\ pc = "cleanup_start"
    /\ dry_run' = DryRun(argv)
    /\ fix_files' \in Orderings({path \in DOMAIN disk : disk[path] # None /\ GlobMatches(path)})
    /\ fix_index' = 1
    /\ rename_operations' = <<>>
    /\ failed_operations' = <<>>
    /\ pc' = IF fix_files' = <<>> THEN "cleanup_done" ELSE "cleanup_loop"
    /\ UNCHANGED <<disk, dirs, reports, cleanupFrame>>

\* what one pass of the loop does with the path it plans for the file
Planned(source, target) ==
    IF target = None
    THEN /\ failed_operations' = Append(failed_operations, source)
         /\ UNCHANGED <<dirs, rename_operations>>
    ELSE IF PathExists(disk, dirs, target)
    THEN UNCHANGED <<dirs, rename_operations, failed_operations>>
    ELSE IF MkdirRaises(disk, target)
    THEN /\ failed_operations' = Append(failed_operations, source)
         /\ UNCHANGED <<dirs, rename_operations>>
    ELSE /\ dirs' = create_directory_structure(dirs, target)
         /\ rename_operations' = Append(rename_operations, <<source, target>>)
         /\ UNCHANGED failed_operations

\* one pass of `for html_file in pattern_files`
CleanupFile ==
    /\ pc = "cleanup_loop"
    /\ fix_index <= Len(fix_files)
    /\ Planned(fix_files[fix_index], fix_results[disk[fix_files[fix_index]]])
    /\ fix_index' = fix_index + 1
    /\ UNCHANGED <<pc, dry_run, disk, fix_files, reports, cleanupFrame>>

\* open() or read() raises in extract_canonical_url: it returns None
CleanupReadError ==
    /\ pc = "cleanup_loop"
    /\ fix_index <= Len(fix_files)
    /\ failed_operations' = Append(failed_operations, fix_files[fix_index])
    /\ fix_index' = fix_index + 1
    /\ UNCHANGED <<pc, dry_run, disk, dirs, fix_files, rename_operations, reports,
                   cleanupFrame>>

\* the summary; the renames follow when there are some and dry_run is false
CleanupSummary ==
    /\ pc = "cleanup_loop"
    /\ fix_index > Len(fix_files)
    /\ reports' = Append(reports, [files_to_rename |-> Len(rename_operations),
                                   failed_to_process |-> Len(failed_operations)])
    /\ fix_index' = 1
    /\ pc' = IF rename_operations # <<>> /\ ~dry_run
             THEN "cleanup_renames" ELSE "cleanup_done"
    /\ UNCHANGED <<dry_run, disk, dirs, fix_files, rename_operations,
                   failed_operations, cleanupFrame>>

\* one pass of `for source, target, target_path in rename_operations`:
\* shutil.move(source, target) puts the file in the place of the target
CleanupRename ==
    /\ pc = "cleanup_renames"
    /\ fix_index <= Len(rename_operations)
    /\ LET source == rename_operations[fix_index][1]
           target == rename_operations[fix_index][2]
       IN  disk' = [disk EXCEPT ![target] = disk[source], ![source] = None]
    /\ fix_index' = fix_index + 1
    /\ UNCHANGED <<pc, dry_run, dirs, fix_files, rename_operations,
                   failed_operations, reports, cleanupFrame>>

\* shutil.move raises: the except clause prints and the loop goes on
CleanupRenameError ==
    /\ pc = "cleanup_renames"
    /\ fix_index <= Len(rename_operations)
    /\ fix_index' = fix_index + 1
    /\ UNCHANGED <<pc, dry_run, disk, dirs, fix_files, rename_operations,
                   failed_operations, reports, cleanupFrame>>

CleanupRenamed ==
    /\ pc = "cleanup_renames"
    /\ fix_index > Len(rename_operations)
    /\ pc' = "cleanup_done"
    /\ UNCHANGED <<dry_run, disk, dirs, fix_files, fix_index, rename_operations,
                   failed_operations, reports, cleanupFrame>>

\* the same command line is started once more
CleanupAgain ==
    /\ pc = "cleanup_done"
    /\ run < MaxRuns
    /\ run' = run + 1
    /\ pc' = "cleanup_start"
    /\ UNCHANGED <<argv, dry_run, script, disk, dirs, fix_files, fix_index,
                   rename_operations, failed_operations, reports, fix_call,
                   total_fixes_made, files_with_fixes, fix_results,
                   checkerVars, categorizeVars, duplicateVars, mappingVars, functionVars>>

NextCleanup ==
    \/ CleanupMain
    \/ CleanupFile
    \/ CleanupReadError
    \/ CleanupSummary
    \/ CleanupRename
    \/ CleanupRenameError
    \/ CleanupRenamed
    \/ CleanupAgain

SpecCleanup == InitCleanup /\ [][NextCleanup]_vars

\* C14: in dry-run mode no step of the script changes the filesystem: no
\* file is written, renamed or deleted and no directory is created.
C14_DryRunChangesNothing ==
    [][dry_run => (disk' = disk /\ dirs' = dirs)]_vars


\* C15: whenever a fixer has overwritten a page, the page's .backup sibling
\* holds the content the page had immediately before the overwrite.
C15_BackupBeforeOverwrite ==
    (fix_call # <<>> /\ fix_call.wrote) =>
        disk[with_suffix_backup(fix_call.file)] = fix_call.original_content


\* the content the last call read is what a run of the script makes of some
\* content of that page
ReadFixedContent ==
    \E s \in DOMAIN fix_results[fix_call.file] :
        fix_results[fix_call.file][s].content = fix_call.original_content

\* C16: in the second execute-mode run a call that reads a page holding what
\* the fixer makes of a content reports zero fixes and leaves the content
\* as it is.
C16_SecondRunFixesNothing ==
    (FileProcessed /\ ~fix_call.raised /\ run = 2 /\ ~dry_run /\ ReadFixedContent) =>
        /\ fix_call.fixes = 0
        /\ fix_call.content = fix_call.original_content


\* the first command-line argument is exactly --execute
ExecuteRequested == Len(argv) >= 2 /\ argv[2] = "--execute"

\* the __main__ block of the script has run
MainStarted == pc \notin {"fix_start", "cleanup_start", "duplicates_start"}

\* C17: a script runs in execute mode if and only if its first command-line
\* argument is exactly --execute; with no argument or any other first
\* argument it stays in dry-run mode and overwrites no file.
C17_ExecuteIffFirstArgument ==
    /\ MainStarted => (dry_run <=> ~ExecuteRequested)
    /\ (fix_call # <<>> /\ fix_call.wrote) => ExecuteRequested

\* --execute came second on the command line: the run is a dry run and left
\* a page alone that its substitutions change
C17_Witness ==
    /\ argv = <<"prog", "--dry-run", "--execute">>
    /\ FileProcessed
    /\ dry_run
    /\ ContentChanged
    /\ ~fix_call.wrote
    /\ disk[fix_call.file] = fix_call.original_content


(***************************************************************************)
(* handle_duplicates.py: the listed files index.html_p_N.html are removed  *)
(* from the blog directory.                                                *)
(***************************************************************************)
MaxDuplicates == 2   \* listed files that stand in the blog directory

\* the names listed in compare_and_remove_duplicates
duplicate_files ==
    << <<"i", "n", "d", "e", "x", ".", "h", "t", "m", "l", "_", "p", "_", "1", "0", "9", "0", ".", "h", "t", "m", "l">>, <<"i", "n", "d", "e", "x", ".", "h", "t", "m", "l", "_", "p", "_", "1", "2", "0", "3", ".", "h", "t", "m", "l">>,
       <<"i", "n", "d", "e", "x", ".", "h", "t", "m", "l", "_", "p", "_", "1", "2", "0", "6", ".", "h", "t", "m", "l">>, <<"i", "n", "d", "e", "x", ".", "h", "t", "m", "l", "_", "p", "_", "1", "2", "0", "8", ".", "h", "t", "m", "l">>,
       <<"i", "n", "d", "e", "x", ".", "h", "t", "m", "l", "_", "p", "_", "3", "0", "8", "1", ".", "h", "t", "m", "l">>, <<"i", "n", "d", "e", "x", ".", "h", "t", "m", "l", "_", "p", "_", "5", "5", "6", ".", "h", "t", "m", "l">>,
       <<"i", "n", "d", "e", "x", ".", "h", "t", "m", "l", "_", "p", "_", "7", "2", "9", ".", "h", "t", "m", "l">>, <<"i", "n", "d", "e", "x", ".", "h", "t", "m", "l", "_", "p", "_", "7", "3", "3", ".", "h", "t", "m", "l">> >>

ListedFiles == {duplicate_files[n] : n \in DOMAIN duplicate_files}

\* what a listed file and the post it would be renamed to can hold
DuplicatePage == OgUrlTag(<<"h", "t", "t", "p", "s", ":", "/", "/", "w", "w", "w", ".", "w", "e", "a", "t", "h", "e", "r", "m", "a", "k", "e", "r", "s", "c", "o", "m", "f", "o", "r", "t", ".", "c", "o", "m", "/", "b", "l", "o", "g", "/", "a", "/">>)
PostContents == {None, DuplicatePage, DuplicatePage \o <<"<", "p", ">", "n", "e", "w", "<", "/", "p", ">">>}

InitDuplicates ==
    /\ pc = "duplicates_start"
    /\ script = "handle_duplicates"
    /\ argv \in Argvs
    /\ dry_run = TRUE
    /\ \E present \in {S \in SUBSET ListedFiles : Cardinality(S) <= MaxDuplicates},
          post \in PostContents :
          /\ disk = [path \in ListedFiles \cup {index_html, post_a} |->
                        IF path \in present THEN DuplicatePage
                        ELSE IF path = index_html THEN <<"<", "p", ">", "b", "l", "o", "g", "<", "/", "p", ">">>
                        ELSE IF path = post_a THEN post
                        ELSE None]
          /\ dirs = IF post = None THEN {} ELSE Parents(post_a)
    /\ run = 1
    /\ fix_index = 0
    /\ removed_count = 0
    /\ reports = <<>>
    /\ fix_files = <<>>
    /\ fix_call = <<>>
    /\ total_fixes_made = 0
    /\ files_with_fixes = 0
    /\ fix_results = <<>>
    /\ CheckerIdle
    /\ CategorizeIdle
    /\ CleanupIdle
    /\ MappingIdle
    /\ FunctionIdle

duplicatesFrame ==
    <<argv, script, run, dirs, fix_files, fix_call, total_fixes_made, files_with_fixes,
      fix_results, rename_operations, failed_operations,
      checkerVars, categorizeVars, mappingVars, functionVars>>

\* the __main__ block and main() up to the loop of
\* compare_and_remove_duplicates
DuplicatesMain ==
    /\ pc = "duplicates_start"
    /\ dry_run' = DryRun(argv)
    /\ removed_count' = 0
    /\ fix_index' = 1
    /\ pc' = "duplicates_loop"
    /\ UNCHANGED <<disk, reports, duplicatesFrame>>

\* one pass of `for filename in duplicate_files`: a file that exists is
\* unlinked, or counted as one that would be
CheckDuplicate ==
    /\ pc = "duplicates_loop"
    /\ fix_index <= Len(duplicate_files)
    /\ IF ~PathExists(disk, dirs, duplicate_files[fix_index])
       THEN UNCHANGED <<disk, removed_count>>
       ELSE /\ disk' = IF dry_run THEN disk
                       ELSE [disk EXCEPT ![duplicate_files[fix_index]] = None]
            /\ removed_count' = removed_count + 1
    /\ fix_index' = fix_index + 1
    /\ UNCHANGED <<pc, dry_run, reports, duplicatesFrame>>

\* unlink() raises: the except clause prints and the loop goes on
UnlinkError ==
    /\ pc = "duplicates_loop"
    /\ fix_index <= Len(duplicate_files)
    /\ PathExists(disk, dirs, duplicate_files[fix_index])
    /\ ~dry_run
    /\ fix_index' = fix_index + 1
    /\ UNCHANGED <<pc, dry_run, disk, removed_count, reports, duplicatesFrame>>

\* the summary of main
DuplicatesSummary ==
    /\ pc = "duplicates_loop"
    /\ fix_index > Len(duplicate_files)
    /\ reports' = Append(reports, [files_processed |-> removed_count])
    /\ pc' = "duplicates_done"
    /\ UNCHANGED <<dry_run, disk, fix_index, removed_count, duplicatesFrame>>

\* the same command line is started once more
DuplicatesAgain ==
    /\ pc = "duplicates_done"
    /\ run < MaxRuns
    /\ run' = run + 1
    /\ pc' = "duplicates_start"
    /\ UNCHANGED <<argv, dry_run, script, disk, dirs, fix_files, fix_index, fix_call,
                   total_fixes_made, files_with_fixes, reports, fix_results,
                   rename_operations, failed_operations, removed_count,
                   checkerVars, categorizeVars, mappingVars, functionVars>>

NextDuplicates ==
    \/ DuplicatesMain
    \/ CheckDuplicate
    \/ UnlinkError
    \/ DuplicatesSummary
    \/ DuplicatesAgain

SpecDuplicates == InitDuplicates /\ [][NextDuplicates]_vars

\* C20: a listed file is removed only when the post its canonical URL names
\* exists and holds the same content as the file.
C20_RemovesOnlyIdentical ==
    [][\A path \in ListedFiles :
          (disk[path] # None /\ disk'[path] = None) =>
              disk[target_path(disk[path])] = disk[path]]_vars


\* C18: a failure while one html file is processed never ends the run: main
\* is not left before every html file found has had its turn.
C18_FailureNeverAborts == pc # "aborted"


(***************************************************************************)
(* The rename mapping: analyze_repo.py builds it from the paths listed by  *)
(* git and saves it in rename_mapping.txt; load_rename_mapping of          *)
(* fetch_missing_files.py reads the file back.                             *)
(***************************************************************************)
MaxNamePieces == 3   \* pieces in the whole generated listing of git
max_name_length == 200

invalid_chars == <<"<", ">", ":", "\"", "|", "?", "*", "=", "&">>
InvalidChars == {invalid_chars[n] : n \in DOMAIN invalid_chars}
Whitespace == {" ", "\n", "\t", "\r"}

\* s.split(sep), from the places where sep is found
PartsBetween(s, ms) ==
    [i \in 1..(Len(ms) + 1) |->
        SubSeq(s, (IF i = 1 THEN 0 ELSE MatchEnd(ms[i - 1])) + 1,
                  IF i <= Len(ms) THEN ms[i].start ELSE Len(s))]

str_split(s, sep) == PartsBetween(s, FindAll(<<Lit(sep)>>, s, FALSE))

\* s.strip(chars)
KeptBetween(s, kept) ==
    IF kept = {} THEN <<>>
    ELSE SubSeq(s, CHOOSE i \in kept : \A j \in kept : i <= j,
                   CHOOSE i \in kept : \A j \in kept : j <= i)

str_strip(s, chars) == KeptBetween(s, {i \in 1..Len(s) : s[i] \notin chars})

\* for char in invalid_chars: sanitized.replace(char, '_' or '_and_'); the
\* replacement texts hold no invalid character, so each character of the
\* name is replaced on its own
ReplaceInvalid(s) ==
    Flatten([i \in 1..Len(s) |->
                IF s[i] = "&" THEN <<"_", "a", "n", "d", "_">>
                ELSE IF s[i] \in InvalidChars THEN <<"_">>
                ELSE <<s[i]>>])

\* urllib.parse.unquote on the escapes that generated names hold
Escapes == { <<<<"%", "2", "F">>, <<"/">>>>, <<<<"%", "3", "A">>, <<":">>>>, <<<<"%", "2", "0">>, <<" ">>>> }

RECURSIVE unquote(_)
unquote(s) ==
    IF s = <<>> THEN <<>>
    ELSE IF \E esc \in Escapes : StartsWith(s, esc[1])
    THEN (CHOOSE esc \in Escapes : StartsWith(s, esc[1]))[2]
             \o unquote(SubSeq(s, 4, Len(s)))
    ELSE <<s[1]>> \o unquote(Tail(s))

\* if '%' in sanitized and any(c in sanitized for c in ['2F', '3A'])
Decoded(s) ==
    IF HasChar(s, "%") /\ (Contains(s, <<"2", "F">>) \/ Contains(s, <<"3", "A">>))
    THEN ReplaceInvalid(unquote(s))
    ELSE s

\* os.path.splitext: the extension begins at the last '.' of the last
\* component, unless only dots come before it there
SplitAt(p, sep, dot) ==
    IF dot > sep /\ \E i \in (sep + 1)..(dot - 1) : p[i] # "."
    THEN <<SubSeq(p, 1, dot - 1), SubSeq(p, dot, Len(p))>>
    ELSE <<p, <<>>>>

LastOf(s, c) ==
    IF HasChar(s, c) THEN CHOOSE i \in 1..Len(s) : s[i] = c /\ \A j \in (i + 1)..Len(s) : s[j] # c
    ELSE 0

splitext(p) == SplitAt(p, LastOf(p, "/"), LastOf(p, "."))

\* name[:k]
UpTo(s, k) ==
    IF k >= 0 THEN SubSeq(s, 1, IF k < Len(s) THEN k ELSE Len(s))
    ELSE SubSeq(s, 1, IF Len(s) + k > 0 THEN Len(s) + k ELSE 0)

\* name[:200-len(ext)] + ext
Shortened(parts) == UpTo(parts[1], max_name_length - Len(parts[2])) \o parts[2]

Truncated(s) == IF Len(s) > max_name_length THEN Shortened(splitext(s)) ELSE s

sanitize_filename(filename) ==
    Truncated(str_strip(re_sub(<<Plus(Lit(<<"_">>))>>, <<T(<<"_">>)>>,
                               Decoded(ReplaceInvalid(filename)), FALSE),
                        {".", " "}))

\* sanitize_filename of fix_filenames.py: the same replacements at first;
\* after decoding, every invalid character, '&' too, becomes '_'
AllUnderscore(s) == [i \in 1..Len(s) |-> IF s[i] \in InvalidChars THEN "_" ELSE s[i]]

\* if '%2F' in sanitized or '%3A' in sanitized
fix_filenames_Decoded(s) ==
    IF Contains(s, <<"%", "2", "F">>) \/ Contains(s, <<"%", "3", "A">>)
    THEN AllUnderscore(unquote(s))
    ELSE s

fix_filenames_sanitize_filename(filename) ==
    Truncated(str_strip(re_sub(<<Plus(Lit(<<"_">>))>>, <<T(<<"_">>)>>,
                               fix_filenames_Decoded(ReplaceInvalid(filename)), FALSE),
                        {".", " "}))

\* the sanitize_filename of the script that is run
SanitizeBy(sc, part) ==
    IF sc = "fix_filenames" THEN fix_filenames_sanitize_filename(part)
    ELSE sanitize_filename(part)

\* '/'.join(sanitize_filename(part) for part in original_path.split('/'))
SanitizedParts(sc, parts) == [i \in 1..Len(parts) |-> SanitizeBy(sc, parts[i])]

sanitized_path(sc, original_path) ==
    JoinWith(SanitizedParts(sc, SplitSlash(original_path)), <<"/">>)

\* f"{name}_{counter}{ext}"
Numbered(parts, counter) == parts[1] \o <<"_", DigitChars[counter]>> \o parts[2]

\* The while loop left out: the sanitized path is taken as it is.
UniqueNameUnchecked(base, taken) == base

\* the while loop that makes the name unique among the names taken
UniqueName(base, taken) ==
    IF base \notin taken THEN base
    ELSE Numbered(splitext(base),
                  CHOOSE c \in 1..(Cardinality(taken) + 1) :
                      /\ Numbered(splitext(base), c) \notin taken
                      /\ \A d \in 1..(c - 1) : Numbered(splitext(base), d) \in taken)

Values(pairs) == {pairs[i][2] : i \in DOMAIN pairs}

\* mapping[key] = value on a dict kept as its items in insertion order
DictPut(pairs, key, value) ==
    IF \E i \in DOMAIN pairs : pairs[i][1] = key
    THEN [i \in DOMAIN pairs |-> IF pairs[i][1] = key THEN <<key, value>> ELSE pairs[i]]
    ELSE Append(pairs, <<key, value>>)

Items(pairs) == {pairs[i] : i \in DOMAIN pairs}

\* the generated repositories: each listing is a sequence of pieces, a new
\* line ending a path; git lists no path twice and no path with an empty name
NamePieces ==
    { <<"a", "?">>, <<"a", "*">>, <<"b">>, <<" ", "-", ">", " ">>, <<" ">>, <<"/">>, <<".", "c">>, <<"&">>, <<"%", "2", "F">>, <<"\n">> }

Listings ==
    { str_split(Flatten(ps), <<"\n">>) : ps \in SeqsUpTo(NamePieces, MaxNamePieces) }

Repositories ==
    { paths \in Listings :
        /\ \A i \in DOMAIN paths :
              /\ paths[i] # <<>>
              /\ \A part \in Items(SplitSlash(paths[i])) : part # <<>>
        /\ \A i, j \in DOMAIN paths : i # j => paths[i] # paths[j] }

InitMapping ==
    /\ pc = "analyze_start"
    /\ script \in {"analyze_repo", "fix_filenames"}
    /\ all_files \in Repositories
    /\ rename_mapping = <<>>
    /\ used_names = {}
    /\ mapping_file = <<>>
    /\ loaded_mapping = <<>>
    /\ fix_files = <<>>
    /\ fix_index = 0
    /\ disk = <<>>
    /\ run = 0
    /\ fix_call = <<>>
    /\ total_fixes_made = 0
    /\ files_with_fixes = 0
    /\ reports = <<>>
    /\ fix_results = <<>>
    /\ CheckerIdle
    /\ CategorizeIdle
    /\ CommandIdle
    /\ CleanupIdle
    /\ DuplicatesIdle
    /\ FunctionIdle

mappingFrame ==
    <<script, disk, run, fix_call, total_fixes_made, files_with_fixes, reports,
      fix_results, checkerVars, categorizeVars, commandVars, cleanupVars, duplicateVars,
      functionVars>>

\* what git ls-tree prints for the repository
GitOutput(paths) == Flatten([i \in DOMAIN paths |-> paths[i] \o <<"\n">>])

\* result.stdout.strip().split('\n')
OutputLines(stdout) == str_split(str_strip(stdout, Whitespace), <<"\n">>)

IsProblematic(file_path) == \E i \in DOMAIN file_path : file_path[i] \in InvalidChars

\* analyze_repo main up to the loop that builds the mapping; it returns when
\* no path is problematic
AnalyzeMain ==
    /\ pc = "analyze_start"
    /\ fix_files' = SelectSeq(OutputLines(GitOutput(all_files)), IsProblematic)
    /\ fix_index' = 1
    /\ rename_mapping' = <<>>
    /\ used_names' = {}
    /\ pc' = IF fix_files' = <<>> THEN "analyze_done" ELSE "analyze_loop"
    /\ UNCHANGED <<all_files, mapping_file, loaded_mapping, mappingFrame>>

\* the names the while loop avoids: used_names in analyze_repo, the values
\* of the mapping in create_rename_mapping of fix_filenames
TakenNames == IF script = "fix_filenames" THEN Values(rename_mapping) ELSE used_names

\* the sanitized path the current original path is given
NewName == UniqueName(sanitized_path(script, fix_files[fix_index]), TakenNames)

\* one pass of `for original_path in problematic_files`
MapPath ==
    /\ pc = "analyze_loop"
    /\ fix_index <= Len(fix_files)
    /\ rename_mapping' = DictPut(rename_mapping, fix_files[fix_index], NewName)
    /\ used_names' = IF script = "fix_filenames" THEN used_names
                     ELSE used_names \cup {NewName}
    /\ fix_index' = fix_index + 1
    /\ UNCHANGED <<pc, all_files, fix_files, mapping_file, loaded_mapping, mappingFrame>>

MappingLine(pair) == pair[1] \o <<" ", "-", ">", " ">> \o pair[2]

\* the file is written: two header lines, then a line for each item
SaveMapping ==
    /\ pc = "analyze_loop"
    /\ fix_index > Len(fix_files)
    /\ mapping_file' = <<<<"O", "r", "i", "g", "i", "n", "a", "l", " ", "-", ">", " ", "S", "a", "n", "i", "t", "i", "z", "e", "d">>, [i \in 1..50 |-> "="]>>
                           \o [i \in DOMAIN rename_mapping |-> MappingLine(rename_mapping[i])]
    /\ pc' = "analyze_done"
    /\ UNCHANGED <<all_files, rename_mapping, used_names, loaded_mapping, fix_files, fix_index,
                   mappingFrame>>

\* the lines of the file that load_rename_mapping takes apart
MappingLines(lines) ==
    SelectSeq(SubSeq(lines, 3, Len(lines)), LAMBDA line : Contains(line, <<" ", "-", ">", " ">>))

\* line.strip().split(' -> ') of a line as readlines() gives it
LineParts(line) == str_split(str_strip(line \o <<"\n">>, Whitespace), <<" ", "-", ">", " ">>)

RECURSIVE LoadedFrom(_, _)
LoadedFrom(lines, mapping) ==
    IF lines = <<>> THEN mapping
    ELSE LoadedFrom(Tail(lines),
                    DictPut(mapping, LineParts(lines[1])[1], LineParts(lines[1])[2]))

\* `original, sanitized = ...` raises ValueError unless there are two parts
UnpackRaises(lines) == \E i \in DOMAIN lines : Len(LineParts(lines[i])) # 2

\* load_rename_mapping() when rename_mapping.txt exists (mapping_file is
\* empty when it does not)
LoadMapping ==
    /\ pc = "analyze_done"
    /\ mapping_file # <<>>
    /\ ~UnpackRaises(MappingLines(mapping_file))
    /\ loaded_mapping' = LoadedFrom(MappingLines(mapping_file), <<>>)
    /\ pc' = "loaded"
    /\ UNCHANGED <<all_files, rename_mapping, used_names, mapping_file, fix_files, fix_index,
                   mappingFrame>>

\* the ValueError of the unpacking is not caught: load_rename_mapping raises
LoadMappingRaises ==
    /\ pc = "analyze_done"
    /\ mapping_file # <<>>
    /\ UnpackRaises(MappingLines(mapping_file))
    /\ pc' = "load_raised"
    /\ UNCHANGED <<all_files, rename_mapping, used_names, mapping_file, loaded_mapping, fix_files,
                   fix_index, mappingFrame>>

\* FileNotFoundError: load_rename_mapping prints and returns {}
LoadMissingFile ==
    /\ pc = "analyze_done"
    /\ mapping_file = <<>>
    /\ loaded_mapping' = <<>>
    /\ pc' = "loaded"
    /\ UNCHANGED <<all_files, rename_mapping, used_names, mapping_file, fix_files, fix_index,
                   mappingFrame>>

NextMapping ==
    \/ AnalyzeMain
    \/ MapPath
    \/ SaveMapping
    \/ LoadMapping
    \/ LoadMappingRaises
    \/ LoadMissingFile

SpecMapping == InitMapping /\ [][NextMapping]_vars

\* C19: load_rename_mapping does not raise on the file analyze_repo wrote and
\* returns exactly the pairs of the mapping that was written.
C19_MappingRoundTrips ==
    pc \in {"loaded", "load_raised"} =>
        /\ pc = "loaded"
        /\ Items(loaded_mapping) = Items(rename_mapping)


(***************************************************************************)
(* The report of the checking loop (checked under Spec).                   *)
(***************************************************************************)
\* the record main appends for a link of a file
BrokenRecord(file, link) ==
    [file |-> file, original_link |-> link,
     normalized_path |-> normalize_path(link, WalkDirs[file])]

\* a link extracted from a file is to be reported: it is classified internal,
\* normalize_path gives a non-empty path for it and nothing exists at
\* site_root joined with that path
ToBeReported(file, link) ==
    /\ ClassifiedInternal(link)
    /\ ~SkipsLink(normalize_path(link, WalkDirs[file]))
    /\ ~Exists(FullPath(normalize_path(link, WalkDirs[file])))

ReportableLinks(file, ls) == SelectSeq(ls, LAMBDA link : ToBeReported(file, link))

\* one record for each occurrence that is to be reported, in document order
ExpectedRecords(file, ls) ==
    [k \in 1..Len(ReportableLinks(file, ls)) |-> BrokenRecord(file, ReportableLinks(file, ls)[k])]

RecordsOf(file) == SelectSeq(broken_links, LAMBDA r : r.file = file)

\* the inner loop over the links of the current file is exhausted
FileChecked == pc = "links" /\ link_index > Len(internal_links)

\* the records main has collected of a file once its links are worked through
C21_RecordsOfCheckedFile ==
    FileChecked => RecordsOf(CurrentFile) = ExpectedRecords(CurrentFile, links)

\* C21: the report is sound and complete: once the links of a file are
\* worked through, its records are exactly the extracted occurrences that
\* are internal, resolved to a non-empty path and missing on disk, one
\* record for each; and no run ends without the report while the file it
\* was scanning holds such a link.
C21_ReportSoundAndComplete ==
    /\ C21_RecordsOfCheckedFile
    /\ pc = "aborted" => ExpectedRecords(CurrentFile, links) = <<>>


\* C22: the rename mapping is injective after every step of building it: no
\* two distinct original paths have the same sanitized path, also when their
\* sanitized forms collide.
C22_MappingInjective ==
    \A i, j \in DOMAIN rename_mapping :
        rename_mapping[i][1] # rename_mapping[j][1] =>
            rename_mapping[i][2] # rename_mapping[j][2]

\* C22 witness: two original paths with the same sanitized form are both in
\* the finished mapping, the later one under a numbered name
C22_Witness ==
    /\ pc = "analyze_done"
    /\ \E i, j \in DOMAIN rename_mapping :
          /\ i < j
          /\ sanitized_path(script, rename_mapping[i][1]) = sanitized_path(script, rename_mapping[j][1])
          /\ rename_mapping[i][2] = sanitized_path(script, rename_mapping[i][1])
          /\ rename_mapping[j][2] = Numbered(splitext(rename_mapping[i][2]), 1)


(***************************************************************************)
(* sanitize_filename called by itself, in each of the three scripts that   *)
(* define it (fetch_missing_files.py has the text of analyze_repo.py).     *)
(***************************************************************************)
MaxExcess == 2   \* how far the generated names go beyond max_name_length

SanitizeScripts == {"analyze_repo", "fix_filenames", "fetch_missing_files"}

Run(c, n) == [i \in 1..n |-> c]

\* the generated file names: short ones, and long ones around the limit
\* with no extension, a short one, and one that is itself around the limit
LongLengths == (max_name_length - MaxExcess)..(max_name_length + MaxExcess)

FileNames ==
    { <<"a", "?", "b", ".", "c">>, <<"a", "&", "b", "=", "c">>, <<".", ".", "a", "*", ".", " ">>, <<"a", "%", "2", "F", "b", "%", "3", "A">>, <<"a", "_", "_", "b">> }
        \cup { Run("a", n) \o ext : n \in LongLengths, ext \in { <<>>, <<".", "c">>, <<"?", ".", "h", "t", "m", "l">> } }
        \cup { <<"a">> \o <<".">> \o Run("b", n) : n \in LongLengths }
        \cup { Run("a", max_name_length) \o <<".">> \o Run("b", n) : n \in LongLengths }

InitSanitize ==
    /\ pc = "sanitize_start"
    /\ script \in SanitizeScripts
    /\ fn_input \in FileNames
    /\ fn_output = <<>>
    /\ disk = <<>>
    /\ run = 0
    /\ fix_files = <<>>
    /\ fix_index = 0
    /\ fix_call = <<>>
    /\ total_fixes_made = 0
    /\ files_with_fixes = 0
    /\ reports = <<>>
    /\ fix_results = <<>>
    /\ CheckerIdle
    /\ CategorizeIdle
    /\ CommandIdle
    /\ CleanupIdle
    /\ DuplicatesIdle
    /\ MappingIdle

functionFrame ==
    <<script, disk, run, fix_files, fix_index, fix_call, total_fixes_made,
      files_with_fixes, reports, fix_results, checkerVars, categorizeVars,
      commandVars, cleanupVars, duplicateVars, mappingVars>>

\* sanitize_filename(filename)
SanitizeFilename ==
    /\ pc = "sanitize_start"
    /\ fn_output' = SanitizeBy(script, fn_input)
    /\ pc' = "sanitize_done"
    /\ UNCHANGED <<fn_input, functionFrame>>

NextSanitize == SanitizeFilename

SpecSanitize == InitSanitize /\ [][NextSanitize]_vars

\* C23: sanitize_filename never returns a name longer than 200 characters,
\* whatever the length of the extension of its argument.
C23_NeverLongerThanLimit ==
    pc = "sanitize_done" => Len(fn_output) <= max_name_length


(***************************************************************************)
(* fix_missing_extensions of fix_broken_links.py called by itself.         *)
(***************************************************************************)
MaxHrefs == 2   \* attributes in a generated text

HrefItems ==
    { <<"h", "r", "e", "f", "=", "\"", "a", "/", "b", "\"">>, <<"h", "r", "e", "f", "=", "'", "a", "/", "b", "'">>, <<"h", "r", "e", "f", "=", "\"", "a", "/", "\"">>, <<"h", "r", "e", "f", "=", "\"", "a", "/", "b", ".", "c", "s", "s", "\"">>,
      <<"h", "r", "e", "f", "=", "\"", "a", "/", "f", "e", "e", "d", "\"">>, <<"h", "r", "e", "f", "=", "\"", "a", "/", "t", "r", "a", "c", "k", "b", "a", "c", "k", "\"">>, <<"h", "r", "e", "f", "=", "\"", "b", "\"">>,
      <<"h", "r", "e", "f", "=", "\"", "/", "x", "/", "y", "/", "p", "a", "g", "e", "\"">>, <<"h", "r", "e", "f", "=", "\"", "h", "t", "t", "p", "s", ":", "/", "/", "e", "v", "i", "l", ".", "o", "r", "g", "/", "a", "\"">>,
      <<"h", "r", "e", "f", "=", "\"", "h", "t", "t", "p", "s", ":", "/", "/", "w", "w", "w", ".", "w", "e", "a", "t", "h", "e", "r", "m", "a", "k", "e", "r", "s", "c", "o", "m", "f", "o", "r", "t", ".", "c", "o", "m", "/", "b", "l", "o", "g", "/", "\"">>, <<"s", "r", "c", "=", "\"", "a", "/", "b", "\"">> }

HrefTexts == {JoinWith(items, <<" ">>) : items \in SeqsUpTo(HrefItems, MaxHrefs)}

\* the idle state of everything a function called by itself does not touch
CalledAlone ==
    /\ fn_output = <<>>
    /\ disk = <<>>
    /\ run = 0
    /\ fix_files = <<>>
    /\ fix_index = 0
    /\ fix_call = <<>>
    /\ total_fixes_made = 0
    /\ files_with_fixes = 0
    /\ reports = <<>>
    /\ fix_results = <<>>
    /\ CheckerIdle
    /\ CategorizeIdle
    /\ CommandIdle
    /\ CleanupIdle
    /\ DuplicatesIdle
    /\ MappingIdle

InitExtensions ==
    /\ pc = "extensions_start"
    /\ script = "fix_broken_links"
    /\ fn_input \in HrefTexts
    /\ CalledAlone

\* content, fixes = fix_missing_extensions(content)
FixMissingExtensions ==
    /\ pc = "extensions_start"
    /\ fn_output' = fix_missing_extensions(fn_input)
    /\ pc' = "extensions_done"
    /\ UNCHANGED <<fn_input, functionFrame>>

NextExtensions == FixMissingExtensions

SpecExtensions == InitExtensions /\ [][NextExtensions]_vars

\* the values of the href attributes of a text, in document order
href_value_pattern == <<Lit(<<"h", "r", "e", "f", "=">>), AnyQuote, Star(NotQuote), AnyQuote>>

HrefValuesOf(s, ms) == [k \in 1..Len(ms) |-> GroupText(s, ms[k], 3, 3)]

HrefValues(s) == HrefValuesOf(s, FindAll(href_value_pattern, s, FALSE))

\* the text after the last '/' of a value (the whole value without one)
FinalSegmentOf(v) == SubSeq(v, LastOf(v, "/") + 1, Len(v))

\* a URL of another domain
ExternalHref(v) == IsAbsoluteUrl(v) /\ ~Contains(urlparse_netloc(v), base_domain)

\* the final segment is a page name without an extension
NeedsExtension(v) ==
    /\ FinalSegmentOf(v) # <<>>
    /\ ~HasChar(FinalSegmentOf(v), ".")
    /\ FinalSegmentOf(v) \notin {<<"f", "e", "e", "d">>, <<"t", "r", "a", "c", "k", "b", "a", "c", "k">>}
    /\ ~ExternalHref(v)

\* C24: fix_missing_extensions changes an href value only by appending
\* '.html', and only when its final segment is a non-empty page name without
\* an extension, other than 'feed' and 'trackback', of a value that is not
\* external; every other href value is left unchanged.
C24_ExtensionOnlyForPages ==
    pc = "extensions_done" =>
        /\ Len(HrefValues(fn_output.content)) = Len(HrefValues(fn_input))
        /\ \A k \in 1..Len(HrefValues(fn_input)) :
              \/ HrefValues(fn_output.content)[k] = HrefValues(fn_input)[k]
              \/ /\ NeedsExtension(HrefValues(fn_input)[k])
                 /\ HrefValues(fn_output.content)[k] = HrefValues(fn_input)[k] \o <<".", "h", "t", "m", "l">>


(***************************************************************************)
(* fix_blog_index_links.py: the listing pages of the blog get the paths of *)
(* the posts in place of the old index.html?p=N.html URLs.                 *)
(***************************************************************************)
MaxAnchors == 2   \* anchors in a generated listing page

\* the items of the dict post_mappings, in the order they are written
post_mappings ==
    <<
       <<<<"1", "0", "8", "6">>, <<"h", "e", "a", "t", "i", "n", "g", "-", "s", "e", "r", "v", "i", "c", "e", "/", "w", "h", "a", "t", "-", "d", "o", "e", "s", "-", "a", "-", "f", "u", "r", "n", "a", "c", "e", "-", "t", "u", "n", "e", "-", "u", "p", "-", "i", "n", "c", "l", "u", "d", "e", "/">>>>,
       <<<<"1", "0", "9", "0">>, <<"h", "e", "a", "t", "i", "n", "g", "-", "s", "e", "r", "v", "i", "c", "e", "/", "t", "y", "p", "e", "s", "-", "o", "f", "-", "h", "e", "a", "t", "i", "n", "g", "-", "s", "y", "s", "t", "e", "m", "s", "-", "f", "o", "r", "-", "a", "l", "b", "e", "r", "t", "a", "-", "h", "o", "m", "e", "s", "-", "a", "n", "d", "-", "b", "u", "i", "l", "d", "i", "n", "g", "s", "/">>>>,
       <<<<"1", "2", "0", "3">>, <<"h", "e", "a", "t", "i", "n", "g", "-", "s", "e", "r", "v", "i", "c", "e", "/", "w", "h", "y", "-", "d", "o", "e", "s", "-", "m", "y", "-", "f", "u", "r", "n", "a", "c", "e", "-", "s", "m", "e", "l", "l", "/">>>>,
       <<<<"1", "2", "0", "6">>, <<"h", "e", "a", "t", "i", "n", "g", "-", "s", "e", "r", "v", "i", "c", "e", "/", "w", "h", "e", "n", "-", "s", "h", "o", "u", "l", "d", "-", "i", "-", "r", "e", "p", "a", "i", "r", "-", "v", "s", "-", "r", "e", "p", "l", "a", "c", "e", "-", "m", "y", "-", "f", "u", "r", "n", "a", "c", "e", "/">>>>,
       <<<<"1", "2", "0", "8">>, <<>>>>,
       <<<<"1", "2", "1", "9">>, <<"h", "e", "a", "t", "i", "n", "g", "-", "s", "e", "r", "v", "i", "c", "e", "/", "h", "o", "w", "-", "t", "o", "-", "h", "u", "m", "i", "d", "i", "f", "y", "-", "y", "o", "u", "r", "-", "h", "o", "m", "e", "-", "i", "n", "-", "w", "i", "n", "t", "e", "r", "/">>>>,
       <<<<"1", "2", "2", "4">>, <<"p", "l", "u", "m", "b", "i", "n", "g", "-", "s", "e", "r", "v", "i", "c", "e", "/", "w", "h", "a", "t", "-", "i", "s", "-", "a", "-", "t", "a", "n", "k", "l", "e", "s", "s", "-", "w", "a", "t", "e", "r", "-", "h", "e", "a", "t", "e", "r", "/">>>>,
       <<<<"1", "2", "3", "2">>, <<"p", "l", "u", "m", "b", "i", "n", "g", "-", "s", "e", "r", "v", "i", "c", "e", "/", "w", "h", "a", "t", "-", "d", "o", "-", "i", "-", "n", "e", "e", "d", "-", "t", "o", "-", "k", "n", "o", "w", "-", "a", "b", "o", "u", "t", "-", "h", "a", "r", "d", "-", "w", "a", "t", "e", "r", "/">>>>,
       <<<<"1", "2", "4", "4">>, <<"p", "l", "u", "m", "b", "i", "n", "g", "-", "s", "e", "r", "v", "i", "c", "e", "/", "h", "o", "w", "-", "t", "o", "-", "c", "l", "e", "a", "r", "-", "s", "l", "o", "w", "-", "a", "n", "d", "-", "c", "l", "o", "g", "g", "e", "d", "-", "d", "r", "a", "i", "n", "s", "/">>>>,
       <<<<"2", "7", "0", "4">>, <<"h", "e", "a", "t", "i", "n", "g", "-", "s", "e", "r", "v", "i", "c", "e", "/", "w", "h", "y", "-", "c", "h", "o", "o", "s", "e", "-", "a", "-", "h", "e", "a", "t", "-", "p", "u", "m", "p", "-", "f", "o", "r", "-", "y", "o", "u", "r", "-", "h", "o", "m", "e", "-", "h", "e", "a", "t", "i", "n", "g", "-", "a", "n", "d", "-", "c", "o", "o", "l", "i", "n", "g", "/">>>>,
       <<<<"2", "7", "2", "1">>, <<"w", "e", "a", "t", "h", "e", "r", "m", "a", "k", "e", "r", "s", "/", "1", "0", "-", "b", "e", "n", "e", "f", "i", "t", "s", "-", "c", "e", "n", "t", "r", "a", "l", "-", "a", "i", "r", "-", "c", "o", "n", "d", "i", "t", "i", "o", "n", "i", "n", "g", "-", "e", "d", "m", "o", "n", "t", "o", "n", "/">>>>,
       <<<<"2", "7", "8", "6">>, <<"h", "e", "a", "t", "i", "n", "g", "-", "s", "e", "r", "v", "i", "c", "e", "/", "c", "o", "m", "m", "e", "r", "c", "i", "a", "l", "-", "h", "v", "a", "c", "-", "a", "n", "d", "-", "c", "o", "m", "m", "e", "r", "c", "i", "a", "l", "-", "p", "l", "u", "m", "b", "i", "n", "g", "-", "e", "d", "m", "o", "n", "t", "o", "n", "/">>>>,
       <<<<"2", "8", "4", "6">>, <<"i", "n", "d", "o", "o", "r", "-", "a", "i", "r", "-", "q", "u", "a", "l", "i", "t", "y", "-", "s", "e", "r", "v", "i", "c", "e", "/", "h", "o", "w", "-", "a", "-", "h", "u", "m", "i", "d", "i", "f", "i", "e", "r", "-", "a", "n", "d", "-", "h", "e", "a", "t", "i", "n", "g", "-", "s", "y", "s", "t", "e", "m", "-", "c", "a", "n", "-", "w", "o", "r", "k", "-", "t", "o", "g", "e", "t", "h", "e", "r", "/">>>>,
       <<<<"2", "8", "5", "1">>, <<"a", "i", "r", "-", "c", "o", "n", "d", "i", "t", "i", "o", "n", "i", "n", "g", "-", "s", "e", "r", "v", "i", "c", "e", "/", "j", "o", "i", "n", "-", "t", "h", "e", "-", "c", "o", "m", "f", "o", "r", "t", "-", "c", "l", "u", "b", "-", "t", "h", "e", "-", "u", "n", "i", "q", "u", "e", "-", "b", "e", "n", "e", "f", "i", "t", "s", "-", "o", "f", "-", "s", "p", "r", "i", "n", "g", "t", "i", "m", "e", "-", "m", "a", "i", "n", "t", "e", "n", "a", "n", "c", "e", "/">>>>,
       <<<<"2", "8", "5", "6">>, <<"h", "e", "a", "t", "-", "p", "u", "m", "p", "s", "/", "o", "u", "r", "-", "d", "e", "e", "p", "-", "d", "u", "c", "t", "l", "e", "s", "s", "-", "g", "u", "i", "d", "e", "-", "f", "o", "r", "-", "h", "o", "m", "e", "o", "w", "n", "e", "r", "s", "/">>>>,
       <<<<"2", "8", "6", "1">>, <<"a", "i", "r", "-", "c", "o", "n", "d", "i", "t", "i", "o", "n", "i", "n", "g", "-", "s", "e", "r", "v", "i", "c", "e", "/", "a", "-", "r", "e", "f", "r", "i", "g", "e", "r", "a", "n", "t", "-", "l", "e", "a", "k", "-", "f", "a", "q", "-", "w", "h", "a", "t", "-", "t", "h", "e", "y", "-", "a", "r", "e", "-", "a", "n", "d", "-", "h", "o", "w", "-", "t", "o", "-", "d", "e", "t", "e", "c", "t", "-", "t", "h", "e", "m", "/">>>>,
       <<<<"2", "8", "6", "5">>, <<"a", "i", "r", "-", "c", "o", "n", "d", "i", "t", "i", "o", "n", "i", "n", "g", "-", "s", "e", "r", "v", "i", "c", "e", "/", "d", "i", "y", "-", "t", "i", "p", "s", "-", "c", "l", "e", "a", "n", "i", "n", "g", "-", "y", "o", "u", "r", "-", "a", "i", "r", "-", "f", "i", "l", "t", "e", "r", "/">>>>,
       <<<<"2", "8", "7", "0">>, <<"a", "i", "r", "-", "c", "o", "n", "d", "i", "t", "i", "o", "n", "i", "n", "g", "-", "s", "e", "r", "v", "i", "c", "e", "/", "5", "-", "s", "i", "g", "n", "s", "-", "i", "t", "-", "m", "i", "g", "h", "t", "-", "b", "e", "-", "t", "i", "m", "e", "-", "t", "o", "-", "r", "e", "t", "i", "r", "e", "-", "y", "o", "u", "r", "-", "a", "c", "/">>>>,
       <<<<"2", "8", "7", "5">>, <<"a", "i", "r", "-", "c", "o", "n", "d", "i", "t", "i", "o", "n", "i", "n", "g", "-", "s", "e", "r", "v", "i", "c", "e", "/", "f", "i", "v", "e", "-", "c", "o", "m", "m", "o", "n", "-", "s", "o", "u", "n", "d", "s", "-", "o", "f", "-", "a", "-", "m", "a", "l", "f", "u", "n", "c", "t", "i", "o", "n", "i", "n", "g", "-", "a", "i", "r", "-", "c", "o", "n", "d", "i", "t", "i", "o", "n", "e", "r", "/">>>>,
       <<<<"2", "8", "7", "9">>, <<"a", "i", "r", "-", "c", "o", "n", "d", "i", "t", "i", "o", "n", "i", "n", "g", "-", "s", "e", "r", "v", "i", "c", "e", "/", "d", "e", "c", "i", "d", "i", "n", "g", "-", "t", "o", "-", "g", "o", "-", "d", "u", "c", "t", "l", "e", "s", "s", "-", "p", "r", "o", "s", "-", "a", "n", "d", "-", "c", "o", "n", "s", "/">>>>,
       <<<<"2", "8", "8", "4">>, <<"a", "i", "r", "-", "c", "o", "n", "d", "i", "t", "i", "o", "n", "i", "n", "g", "-", "s", "e", "r", "v", "i", "c", "e", "/", "w", "e", "a", "t", "h", "e", "r", "m", "a", "k", "e", "r", "s", "-", "t", "i", "p", "s", "-", "i", "t", "s", "-", "n", "o", "t", "-", "t", "o", "o", "-", "l", "a", "t", "e", "-", "f", "o", "r", "-", "m", "a", "i", "n", "t", "e", "n", "a", "n", "c", "e", "/">>>>,
       <<<<"2", "8", "8", "9">>, <<"a", "i", "r", "-", "c", "o", "n", "d", "i", "t", "i", "o", "n", "i", "n", "g", "-", "s", "e", "r", "v", "i", "c", "e", "/", "c", "h", "o", "o", "s", "i", "n", "g", "-", "t", "h", "e", "-", "r", "i", "g", "h", "t", "-", "a", "c", "-", "i", "n", "s", "t", "a", "l", "l", "e", "r", "-", "i", "n", "-", "e", "d", "m", "o", "n", "t", "o", "n", "/">>>>,
       <<<<"2", "8", "9", "4">>, <<"a", "i", "r", "-", "c", "o", "n", "d", "i", "t", "i", "o", "n", "i", "n", "g", "-", "s", "e", "r", "v", "i", "c", "e", "/", "a", "r", "e", "-", "y", "o", "u", "-", "d", "e", "a", "l", "i", "n", "g", "-", "w", "i", "t", "h", "-", "a", "n", "-", "a", "c", "-", "s", "e", "r", "v", "i", "c", "e", "-", "s", "c", "a", "m", "/">>>>,
       <<<<"2", "8", "9", "9">>, <<"a", "i", "r", "-", "c", "o", "n", "d", "i", "t", "i", "o", "n", "i", "n", "g", "-", "s", "e", "r", "v", "i", "c", "e", "/", "t", "h", "e", "-", "u", "n", "i", "q", "u", "e", "-", "p", "r", "o", "s", "-", "a", "n", "d", "-", "c", "o", "n", "s", "-", "o", "f", "-", "d", "u", "c", "t", "l", "e", "s", "s", "-", "h", "v", "a", "c", "/">>>>,
       <<<<"2", "9", "0", "5">>, <<"a", "i", "r", "-", "c", "o", "n", "d", "i", "t", "i", "o", "n", "i", "n", "g", "-", "s", "e", "r", "v", "i", "c", "e", "/", "c", "u", "s", "t", "o", "m", "e", "r", "-", "q", "u", "e", "s", "t", "i", "o", "n", "s", "-", "w", "h", "y", "-", "d", "o", "e", "s", "-", "a", "-", "p", "r", "o", "b", "l", "e", "m", "-", "i", "m", "p", "a", "c", "t", "-", "a", "-", "s", "y", "s", "t", "e", "m", "s", "-", "e", "f", "f", "i", "c", "i", "e", "n", "c", "y", "/">>>>,
       <<<<"2", "9", "1", "0">>, <<"p", "l", "u", "m", "b", "i", "n", "g", "-", "s", "e", "r", "v", "i", "c", "e", "/", "a", "r", "e", "-", "d", "r", "a", "i", "n", "-", "c", "l", "e", "a", "n", "i", "n", "g", "-", "c", "h", "e", "m", "i", "c", "a", "l", "s", "-", "r", "e", "a", "l", "l", "y", "-", "t", "h", "a", "t", "-", "b", "a", "d", "/">>>>,
       <<<<"2", "9", "1", "5">>, <<"i", "n", "d", "o", "o", "r", "-", "a", "i", "r", "-", "q", "u", "a", "l", "i", "t", "y", "-", "s", "e", "r", "v", "i", "c", "e", "/", "d", "u", "c", "t", "-", "c", "l", "e", "a", "n", "i", "n", "g", "-", "a", "-", "g", "o", "o", "d", "-", "c", "h", "o", "i", "c", "e", "-", "f", "o", "r", "-", "t", "h", "e", "-", "f", "a", "l", "l", "/">>>>,
       <<<<"2", "9", "2", "0">>, <<"h", "e", "a", "t", "i", "n", "g", "-", "s", "e", "r", "v", "i", "c", "e", "/", "c", "h", "o", "o", "s", "i", "n", "g", "-", "t", "h", "e", "-", "r", "i", "g", "h", "t", "-", "h", "e", "a", "t", "i", "n", "g", "-", "s", "y", "s", "t", "e", "m", "-", "f", "o", "r", "-", "y", "o", "u", "r", "-", "h", "o", "m", "e", "-", "t", "h", "i", "s", "-", "w", "i", "n", "t", "e", "r", "/">>>>,
       <<<<"2", "9", "2", "4">>, <<"f", "u", "r", "n", "a", "c", "e", "/", "t", "h", "e", "-", "a", "i", "r", "-", "f", "i", "l", "t", "e", "r", "-", "a", "-", "c", "o", "m", "p", "o", "n", "e", "n", "t", "-", "y", "o", "u", "-", "c", "a", "n", "t", "-", "a", "f", "f", "o", "r", "d", "-", "t", "o", "-", "f", "o", "r", "g", "e", "t", "-", "t", "h", "i", "s", "-", "y", "e", "a", "r", "/">>>>,
       <<<<"2", "9", "3", "0">>, <<"c", "o", "m", "m", "e", "r", "c", "i", "a", "l", "-", "h", "v", "a", "c", "-", "p", "l", "u", "m", "b", "i", "n", "g", "/", "b", "i", "g", "-", "t", "i", "p", "s", "-", "f", "o", "r", "-", "b", "i", "g", "-", "j", "o", "b", "s", "-", "c", "o", "n", "s", "i", "d", "e", "r", "a", "t", "i", "o", "n", "s", "-", "f", "o", "r", "-", "c", "o", "m", "m", "e", "r", "c", "i", "a", "l", "-", "p", "l", "u", "m", "b", "i", "n", "g", "/">>>>,
       <<<<"2", "9", "3", "7">>, <<"h", "e", "a", "t", "i", "n", "g", "-", "s", "e", "r", "v", "i", "c", "e", "/", "f", "u", "r", "n", "a", "c", "e", "-", "m", "a", "i", "n", "t", "e", "n", "a", "n", "c", "e", "-", "e", "s", "s", "e", "n", "t", "i", "a", "l", "-", "f", "o", "r", "-", "a", "n", "-", "e", "d", "m", "o", "n", "t", "o", "n", "-", "w", "i", "n", "t", "e", "r", "/">>>>,
       <<<<"2", "9", "4", "2">>, <<"h", "e", "a", "t", "i", "n", "g", "-", "s", "e", "r", "v", "i", "c", "e", "/", "w", "h", "a", "t", "-", "d", "o", "e", "s", "-", "a", "-", "f", "u", "r", "n", "a", "c", "e", "-", "t", "u", "n", "e", "-", "u", "p", "-", "i", "n", "c", "l", "u", "d", "e", "/">>>>,
       <<<<"2", "9", "5", "3">>, <<"h", "e", "a", "t", "i", "n", "g", "-", "s", "e", "r", "v", "i", "c", "e", "/", "h", "o", "w", "-", "t", "o", "-", "s", "p", "o", "t", "-", "s", "i", "g", "n", "s", "-", "y", "o", "u", "-", "n", "e", "e", "d", "-", "b", "o", "i", "l", "e", "r", "-", "r", "e", "p", "a", "i", "r", "/">>>>,
       <<<<"2", "9", "7", "2">>, <<"h", "v", "a", "c", "/", "s", "p", "r", "e", "a", "d", "-", "t", "h", "e", "-", "l", "o", "v", "e", "-", "u", "p", "g", "r", "a", "d", "e", "-", "y", "o", "u", "r", "-", "h", "v", "a", "c", "-", "s", "y", "s", "t", "e", "m", "/">>>>,
       <<<<"2", "9", "8", "3">>, <<"h", "e", "a", "t", "i", "n", "g", "-", "s", "e", "r", "v", "i", "c", "e", "/", "n", "e", "w", "-", "f", "u", "r", "n", "a", "c", "e", "-", "i", "n", "s", "t", "a", "l", "l", "-", "w", "h", "a", "t", "-", "t", "o", "-", "e", "x", "p", "e", "c", "t", "/">>>>,
       <<<<"2", "9", "9", "2">>, <<"p", "l", "u", "m", "b", "i", "n", "g", "-", "s", "e", "r", "v", "i", "c", "e", "/", "i", "s", "-", "i", "t", "-", "a", "n", "-", "e", "m", "e", "r", "g", "e", "n", "c", "y", "-", "k", "n", "o", "w", "-", "w", "h", "e", "n", "-", "t", "o", "-", "c", "a", "l", "l", "-", "a", "-", "p", "l", "u", "m", "b", "e", "r", "-", "r", "i", "g", "h", "t", "-", "a", "w", "a", "y", "/">>>>,
       <<<<"3", "0", "0", "7">>, <<"w", "a", "t", "e", "r", "-", "h", "e", "a", "t", "e", "r", "-", "s", "e", "r", "v", "i", "c", "e", "/", "i", "s", "-", "a", "-", "t", "a", "n", "k", "l", "e", "s", "s", "-", "w", "a", "t", "e", "r", "-", "h", "e", "a", "t", "e", "r", "-", "r", "i", "g", "h", "t", "-", "f", "o", "r", "-", "y", "o", "u", "r", "-", "h", "o", "m", "e", "/">>>>,
       <<<<"3", "0", "1", "9">>, <<"c", "o", "m", "m", "e", "r", "c", "i", "a", "l", "-", "h", "v", "a", "c", "-", "p", "l", "u", "m", "b", "i", "n", "g", "/", "w", "h", "a", "t", "-", "a", "r", "e", "-", "c", "o", "m", "m", "o", "n", "-", "p", "l", "u", "m", "b", "i", "n", "g", "-", "i", "s", "s", "u", "e", "s", "-", "f", "o", "r", "-", "b", "u", "s", "i", "n", "e", "s", "s", "e", "s", "/">>>>,
       <<<<"3", "0", "3", "0">>, <<"p", "l", "u", "m", "b", "i", "n", "g", "-", "s", "e", "r", "v", "i", "c", "e", "/", "w", "h", "y", "-", "i", "s", "-", "m", "y", "-", "w", "a", "t", "e", "r", "-", "h", "e", "a", "t", "e", "r", "-", "l", "e", "a", "k", "i", "n", "g", "-", "w", "h", "a", "t", "-", "y", "o", "u", "-", "s", "h", "o", "u", "l", "d", "-", "d", "o", "-", "n", "o", "w", "/">>>>,
       <<<<"3", "0", "4", "2">>, <<"c", "o", "m", "m", "e", "r", "c", "i", "a", "l", "-", "h", "v", "a", "c", "-", "p", "l", "u", "m", "b", "i", "n", "g", "/", "h", "o", "w", "-", "t", "o", "-", "c", "h", "o", "o", "s", "e", "-", "t", "h", "e", "-", "r", "i", "g", "h", "t", "-", "h", "v", "a", "c", "-", "s", "y", "s", "t", "e", "m", "-", "f", "o", "r", "-", "y", "o", "u", "r", "-", "c", "o", "m", "m", "e", "r", "c", "i", "a", "l", "-", "s", "p", "a", "c", "e", "/">>>>,
       <<<<"3", "0", "5", "3">>, <<"i", "n", "d", "o", "o", "r", "-", "a", "i", "r", "-", "q", "u", "a", "l", "i", "t", "y", "-", "s", "e", "r", "v", "i", "c", "e", "/", "s", "i", "m", "p", "l", "e", "-", "w", "a", "y", "s", "-", "t", "o", "-", "k", "e", "e", "p", "-", "y", "o", "u", "r", "-", "f", "a", "m", "i", "l", "y", "-", "s", "a", "f", "e", "-", "f", "r", "o", "m", "-", "c", "a", "r", "b", "o", "n", "-", "m", "o", "n", "o", "x", "i", "d", "e", "/">>>>,
       <<<<"3", "0", "6", "7">>, <<"a", "i", "r", "-", "c", "o", "n", "d", "i", "t", "i", "o", "n", "i", "n", "g", "-", "s", "e", "r", "v", "i", "c", "e", "/", "i", "n", "v", "e", "r", "t", "e", "r", "-", "a", "c", "s", "-", "a", "r", "e", "-", "b", "e", "t", "t", "e", "r", "-", "t", "o", "-", "b", "e", "a", "t", "-", "t", "h", "e", "-", "s", "u", "m", "m", "e", "r", "-", "h", "e", "a", "t", "-", "a", "n", "d", "-", "h", "e", "r", "e", "s", "-", "w", "h", "y", "/">>>>,
       <<<<"3", "0", "8", "1">>, <<"p", "l", "u", "m", "b", "i", "n", "g", "-", "s", "e", "r", "v", "i", "c", "e", "/", "w", "h", "a", "t", "-", "t", "o", "-", "d", "o", "-", "w", "h", "e", "n", "-", "y", "o", "u", "r", "-", "w", "a", "t", "e", "r", "-", "h", "e", "a", "t", "e", "r", "-", "s", "t", "a", "r", "t", "s", "-", "l", "e", "a", "k", "i", "n", "g", "/">>>>,
       <<<<"5", "5", "6">>, <<"w", "e", "a", "t", "h", "e", "r", "m", "a", "k", "e", "r", "s", "/", "w", "h", "a", "t", "-", "m", "a", "k", "e", "s", "-", "w", "e", "a", "t", "h", "e", "r", "m", "a", "k", "e", "r", "s", "-", "d", "i", "f", "f", "e", "r", "e", "n", "t", "/">>>>,
       <<<<"7", "2", "9">>, <<"w", "e", "a", "t", "h", "e", "r", "m", "a", "k", "e", "r", "s", "/", "m", "e", "t", "r", "o", "-", "e", "d", "m", "o", "n", "t", "o", "n", "s", "-", "b", "e", "s", "t", "-", "h", "v", "a", "c", "-", "a", "n", "d", "-", "p", "l", "u", "m", "b", "i", "n", "g", "-", "c", "o", "n", "t", "r", "a", "c", "t", "o", "r", "-", "f", "o", "r", "-", "o", "v", "e", "r", "-", "5", "5", "-", "y", "e", "a", "r", "s", "/">>>>,
       <<<<"7", "3", "3">>, <<"h", "e", "a", "t", "i", "n", "g", "-", "s", "e", "r", "v", "i", "c", "e", "/", "t", "i", "m", "e", "-", "f", "o", "r", "-", "a", "-", "n", "e", "w", "-", "f", "u", "r", "n", "a", "c", "e", "/">>>>
    >>

\* the two items create_blog_post_mapping adds for a post whose path is not empty
MappingItems(post) ==
    IF post[2] = <<>> THEN <<>>
    ELSE << <<<<"i", "n", "d", "e", "x", ".", "h", "t", "m", "l", "?", "p", "=">> \o post[1] \o <<".", "h", "t", "m", "l">>, post[2] \o index_html>>,
            <<<<"i", "n", "d", "e", "x", ".", "h", "t", "m", "l", "?", "p", "=">> \o post[1] \o <<".", "h", "t", "m", "l", "#", "m", "o", "r", "e", "-">> \o post[1], post[2] \o index_html>> >>

create_blog_post_mapping ==
    Flatten([n \in 1..Len(post_mappings) |-> MappingItems(post_mappings[n])])

\* content.replace(f'href={q}{old_url}{q}', f'href={q}{new_path}{q}'), counted
\* when it changes the content
ReplacedHref(done, q, item) ==
    AddFixes(done, OneFixIfChanged(done.content,
                       str_replace(done.content,
                                   <<"h", "r", "e", "f", "=">> \o <<q>> \o item[1] \o <<q>>,
                                   <<"h", "r", "e", "f", "=">> \o <<q>> \o item[2] \o <<q>>)))

\* one pass of `for old_url, new_path in mapping.items()`
ReplaceOldUrl(done, item) == ReplacedHref(ReplacedHref(done, "\"", item), "'", item)

\* the passes for the items i..j of the mapping, in order
RECURSIVE ReplaceOldUrls(_, _, _, _)
ReplaceOldUrls(mapping, done, i, j) ==
    IF i > j THEN done
    ELSE IF i = j THEN ReplaceOldUrl(done, mapping[i])
    ELSE Only({ ReplaceOldUrls(mapping, left, (i + j) \div 2 + 1, j) :
                  left \in {ReplaceOldUrls(mapping, done, i, (i + j) \div 2)} })

\* <a href="/blog/" rel="bookmark" title="Permanent Link to ([^"]+)">Continue Reading</a>
continue_reading_pattern ==
    <<Lit(<<"<", "a", " ", "h", "r", "e", "f", "=", "\"", "/", "b", "l", "o", "g", "/", "\"", " ", "r", "e", "l", "=", "\"", "b", "o", "o", "k", "m", "a", "r", "k", "\"", " ", "t", "i", "t", "l", "e", "=", "\"", "P", "e", "r", "m", "a", "n", "e", "n", "t", " ", "L", "i", "n", "k", " ", "t", "o", " ">>),
      Plus(NoneOf({"\""})), Lit(<<"\"", ">", "C", "o", "n", "t", "i", "n", "u", "e", " ", "R", "e", "a", "d", "i", "n", "g", "<", "/", "a", ">">>)>>

\* the items of the mapping whose new_path is not empty
WithPath(mapping) == SelectSeq(mapping, LAMBDA item : item[2] # <<>>)

\* the loop of fix_continue_reading returns at the first item with a path
fix_continue_reading(mapping, s, m) ==
    IF WithPath(mapping) = <<>> THEN MatchText(s, m)
    ELSE <<"<", "a", " ", "h", "r", "e", "f", "=", "\"">> \o WithPath(mapping)[1][2]
             \o <<"\"", " ", "r", "e", "l", "=", "\"", "b", "o", "o", "k", "m", "a", "r", "k", "\"", " ", "t", "i", "t", "l", "e", "=", "\"", "P", "e", "r", "m", "a", "n", "e", "n", "t", " ", "L", "i", "n", "k", " ", "t", "o", " ">> \o GroupText(s, m, 2, 2)
             \o <<"\"", ">", "C", "o", "n", "t", "i", "n", "u", "e", " ", "R", "e", "a", "d", "i", "n", "g", "<", "/", "a", ">">>

ContinueReadingFixed(mapping, s, ms) ==
    Substitute(s, ms, [n \in 1..Len(ms) |-> fix_continue_reading(mapping, s, ms[n])], 0)

\* content and fixes_made of fix_blog_index_links(file_path, mapping, dry_run)
ContinueReadingStep(mapping, done) ==
    AddFixes(done, OneFixIfChanged(done.content,
                       ContinueReadingFixed(mapping, done.content,
                           FindAll(continue_reading_pattern, done.content, FALSE))))

fix_blog_index_links(s, mapping) ==
    ContinueReadingStep(mapping, ReplaceOldUrls(mapping, [content |-> s, fixes |-> 0], 1, Len(mapping)))

\* the generated listing pages
PostTitles ==
    { <<"W", "h", "a", "t", " ", "D", "o", "e", "s", " ", "a", " ", "F", "u", "r", "n", "a", "c", "e", " ", "T", "u", "n", "e", "-", "U", "p", " ", "I", "n", "c", "l", "u", "d", "e", "?">>, <<"W", "h", "y", " ", "D", "o", "e", "s", " ", "M", "y", " ", "F", "u", "r", "n", "a", "c", "e", " ", "S", "m", "e", "l", "l", "?">>,
      <<"T", "i", "m", "e", " ", "f", "o", "r", " ", "a", " ", "N", "e", "w", " ", "F", "u", "r", "n", "a", "c", "e">>, <<"N", "o", " ", "S", "u", "c", "h", " ", "P", "o", "s", "t">> }

ContinueReading(title) ==
    <<"<", "a", " ", "h", "r", "e", "f", "=", "\"", "/", "b", "l", "o", "g", "/", "\"", " ", "r", "e", "l", "=", "\"", "b", "o", "o", "k", "m", "a", "r", "k", "\"", " ", "t", "i", "t", "l", "e", "=", "\"", "P", "e", "r", "m", "a", "n", "e", "n", "t", " ", "L", "i", "n", "k", " ", "t", "o", " ">> \o title
        \o <<"\"", ">", "C", "o", "n", "t", "i", "n", "u", "e", " ", "R", "e", "a", "d", "i", "n", "g", "<", "/", "a", ">">>

ListingItems ==
    {ContinueReading(title) : title \in PostTitles}
        \cup { <<"<", "a", " ", "h", "r", "e", "f", "=", "\"", "i", "n", "d", "e", "x", ".", "h", "t", "m", "l", "?", "p", "=", "1", "2", "0", "3", ".", "h", "t", "m", "l", "\"", ">", "W", "h", "y", "<", "/", "a", ">">>,
               <<"<", "a", " ", "h", "r", "e", "f", "=", "'", "i", "n", "d", "e", "x", ".", "h", "t", "m", "l", "?", "p", "=", "7", "3", "3", ".", "h", "t", "m", "l", "#", "m", "o", "r", "e", "-", "7", "3", "3", "'", ">", "m", "o", "r", "e", "<", "/", "a", ">">>,
               <<"<", "a", " ", "h", "r", "e", "f", "=", "\"", "i", "n", "d", "e", "x", ".", "h", "t", "m", "l", "?", "p", "=", "1", "2", "0", "8", ".", "h", "t", "m", "l", "\"", ">", "B", "l", "o", "g", "<", "/", "a", ">">>,
               <<"<", "a", " ", "h", "r", "e", "f", "=", "\"", "/", "b", "l", "o", "g", "/", "\"", ">", "B", "l", "o", "g", "<", "/", "a", ">">> }

ListingPages == {Flatten(items) : items \in SeqsUpTo(ListingItems, MaxAnchors)}

InitBlogIndex ==
    /\ pc = "blog_index_start"
    /\ script = "fix_blog_index_links"
    /\ fn_input \in ListingPages
    /\ CalledAlone

\* fix_blog_index_links on a page with the mapping main hands it
FixBlogIndexLinks ==
    /\ pc = "blog_index_start"
    /\ fn_output' = fix_blog_index_links(fn_input, create_blog_post_mapping)
    /\ pc' = "blog_index_done"
    /\ UNCHANGED <<fn_input, functionFrame>>

NextBlogIndex == FixBlogIndexLinks

SpecBlogIndex == InitBlogIndex /\ [][NextBlogIndex]_vars

\* the name a title has in the path of its post: lower case, '-' for each
\* space, punctuation left out
SlugChar(c) ==
    IF c = " " THEN <<"-">>
    ELSE IF LowerChar(c) \in Items(LowerCase) \cup Digits \cup {"-"} THEN <<LowerChar(c)>>
    ELSE <<>>

Slug(title) == Flatten([i \in 1..Len(title) |-> SlugChar(title[i])])

\* the paths of the mapping whose post is named by the title
PostsNamed(title) ==
    { path \in Values(create_blog_post_mapping) :
        SplitSlash(path)[Len(SplitSlash(path)) - 1] = Slug(title) }

\* the Continue Reading anchors of a text: their hrefs and titles in order
bookmark_pattern ==
    <<Lit(<<"<", "a", " ", "h", "r", "e", "f", "=", "\"">>), Star(NoneOf({"\""})),
      Lit(<<"\"", " ", "r", "e", "l", "=", "\"", "b", "o", "o", "k", "m", "a", "r", "k", "\"", " ", "t", "i", "t", "l", "e", "=", "\"", "P", "e", "r", "m", "a", "n", "e", "n", "t", " ", "L", "i", "n", "k", " ", "t", "o", " ">>),
      Plus(NoneOf({"\""})), Lit(<<"\"", ">", "C", "o", "n", "t", "i", "n", "u", "e", " ", "R", "e", "a", "d", "i", "n", "g", "<", "/", "a", ">">>)>>

AnchorsOf(s, ms) ==
    [k \in 1..Len(ms) |-> [href |-> GroupText(s, ms[k], 2, 2), title |-> GroupText(s, ms[k], 4, 4)]]

Anchors(s) == AnchorsOf(s, FindAll(bookmark_pattern, s, FALSE))

\* C25: each Continue Reading anchor that points to '/blog/' gets as href
\* the path of the post its own title names, and stays unchanged when no
\* post has that name (so anchors of different posts get different hrefs).
C25_AnchorGetsItsOwnPost ==
    pc = "blog_index_done" =>
        /\ Len(Anchors(fn_output.content)) = Len(Anchors(fn_input))
        /\ \A k \in 1..Len(Anchors(fn_input)) :
              /\ Anchors(fn_output.content)[k].title = Anchors(fn_input)[k].title
              /\ IF PostsNamed(Anchors(fn_input)[k].title) = {}
                 THEN Anchors(fn_output.content)[k].href = Anchors(fn_input)[k].href
                 ELSE Anchors(fn_output.content)[k].href \in PostsNamed(Anchors(fn_input)[k].title)


(***************************************************************************)
(* The asset paths of the blog posts: fix_wordpress_asset_paths of         *)
(* fix_remaining_css_paths.py and fix_blog_post_css_paths of               *)
(* fix_blog_posts_final.py, each called on a post below the blog root.     *)
(***************************************************************************)
MaxPostDepth == 2   \* directories between the blog root and a generated post

\* blog_root = site_root / "blog", as names below the site root
blog_root == <<<<"b", "l", "o", "g">>>>

\* len(blog_post_path.relative_to(blog_root).parts) - 1 for a file in the
\* directories file_dir below the blog root
calculate_relative_depth(file_dir) == Len(file_dir)

\* '../' * depth
RelativePrefix(depth) == Flatten([i \in 1..depth |-> <<".", ".", "/">>])

\* ATTR=qblog/TAIL([^q]*)q  ->  ATTR=q{site_root_prefix}blog/TAIL\1q
WpAsset(attr, q, tail, prefix) ==
    Sub(<<Lit(attr \o <<"=", q>> \o <<"b", "l", "o", "g", "/">> \o tail), Star(NoneOf({q})), Lit(<<q>>)>>,
        <<T(attr \o <<"=", q>> \o prefix \o <<"b", "l", "o", "g", "/">> \o tail), G(2, 2), T(<<q>>)>>)

wp_patterns(prefix) ==
    << WpAsset(<<"h", "r", "e", "f">>, "\"", <<"w", "p", "-", "i", "n", "c", "l", "u", "d", "e", "s", "/">>, prefix), WpAsset(<<"h", "r", "e", "f">>, "'", <<"w", "p", "-", "i", "n", "c", "l", "u", "d", "e", "s", "/">>, prefix),
       WpAsset(<<"s", "r", "c">>, "\"", <<"w", "p", "-", "i", "n", "c", "l", "u", "d", "e", "s", "/">>, prefix), WpAsset(<<"s", "r", "c">>, "'", <<"w", "p", "-", "i", "n", "c", "l", "u", "d", "e", "s", "/">>, prefix),
       WpAsset(<<"h", "r", "e", "f">>, "\"", <<"w", "p", "-", "c", "o", "n", "t", "e", "n", "t", "/">>, prefix), WpAsset(<<"h", "r", "e", "f">>, "'", <<"w", "p", "-", "c", "o", "n", "t", "e", "n", "t", "/">>, prefix),
       WpAsset(<<"s", "r", "c">>, "\"", <<"w", "p", "-", "c", "o", "n", "t", "e", "n", "t", "/">>, prefix), WpAsset(<<"s", "r", "c">>, "'", <<"w", "p", "-", "c", "o", "n", "t", "e", "n", "t", "/">>, prefix),
       WpAsset(<<"h", "r", "e", "f">>, "\"", <<>>, prefix), WpAsset(<<"h", "r", "e", "f">>, "'", <<>>, prefix),
       WpAsset(<<"s", "r", "c">>, "\"", <<>>, prefix), WpAsset(<<"s", "r", "c">>, "'", <<>>, prefix) >>

\* content and fixes_made of fix_wordpress_asset_paths(file_path, blog_root, dry_run)
fix_wordpress_asset_paths(s, file_dir) ==
    IF calculate_relative_depth(file_dir) > 0
    THEN ApplySubs(wp_patterns(RelativePrefix(calculate_relative_depth(file_dir))), s, FALSE, 1)
    ELSE [content |-> s, fixes |-> 0]

\* ATTR="/NAME  ->  ATTR="{relative_prefix}NAME
RootReference(attr, name, prefix) ==
    Sub(<<Lit(attr \o <<"=", "\"", "/">> \o name)>>, <<T(attr \o <<"=", "\"">> \o prefix \o name)>>)

asset_patterns(prefix) ==
    << RootReference(<<"h", "r", "e", "f">>, <<"a", "s", "s", "e", "t", "s", "/">>, prefix), RootReference(<<"s", "r", "c">>, <<"a", "s", "s", "e", "t", "s", "/">>, prefix),
       RootReference(<<"h", "r", "e", "f">>, <<"a", "p", "p", "l", "e", "-", "t", "o", "u", "c", "h", "-", "i", "c", "o", "n">>, prefix), RootReference(<<"h", "r", "e", "f">>, <<"f", "a", "v", "i", "c", "o", "n">>, prefix) >>

\* content and fixes_made of fix_blog_post_css_paths(file_path, blog_root, dry_run)
fix_blog_post_css_paths(s, file_dir) ==
    IF calculate_relative_depth(file_dir) > 0
    THEN ApplySubs(asset_patterns(RelativePrefix(calculate_relative_depth(file_dir))), s, FALSE, 1)
    ELSE [content |-> s, fixes |-> 0]

\* the generated posts: the directories of a post and its references
PostDirNames == <<<<"h", "e", "a", "t", "i", "n", "g", "-", "s", "e", "r", "v", "i", "c", "e">>, <<"t", "i", "m", "e", "-", "f", "o", "r", "-", "a", "-", "n", "e", "w", "-", "f", "u", "r", "n", "a", "c", "e">>, <<"a", "m", "p">>>>

PostDirs == {SubSeq(PostDirNames, 1, n) : n \in 1..MaxPostDepth}

ReferenceItems ==
    { <<"h", "r", "e", "f", "=", "\"", "b", "l", "o", "g", "/", "w", "p", "-", "i", "n", "c", "l", "u", "d", "e", "s", "/", "c", "s", "s", "/", "a", ".", "c", "s", "s", "\"">>, <<"s", "r", "c", "=", "'", "b", "l", "o", "g", "/", "w", "p", "-", "i", "n", "c", "l", "u", "d", "e", "s", "/", "j", "s", "/", "b", ".", "j", "s", "'">>,
      <<"s", "r", "c", "=", "\"", "b", "l", "o", "g", "/", "w", "p", "-", "c", "o", "n", "t", "e", "n", "t", "/", "u", "p", "l", "o", "a", "d", "s", "/", "c", ".", "p", "n", "g", "\"">>, <<"h", "r", "e", "f", "=", "'", "b", "l", "o", "g", "/", "f", "e", "e", "d", "/", "i", "n", "d", "e", "x", ".", "h", "t", "m", "l", "'">>,
      <<"h", "r", "e", "f", "=", "\"", "/", "a", "s", "s", "e", "t", "s", "/", "c", "s", "s", "/", "s", ".", "c", "s", "s", "\"">>, <<"s", "r", "c", "=", "\"", "/", "a", "s", "s", "e", "t", "s", "/", "j", "s", "/", "m", ".", "j", "s", "\"">>,
      <<"h", "r", "e", "f", "=", "\"", "/", "f", "a", "v", "i", "c", "o", "n", ".", "i", "c", "o", "\"">>, <<"h", "r", "e", "f", "=", "\"", ".", ".", "/", ".", ".", "/", "a", "b", "o", "u", "t", ".", "h", "t", "m", "l", "\"">> }

PostTexts == {JoinWith(items, <<" ">>) : items \in SeqsUpTo(ReferenceItems, MaxHrefs)}

AssetScripts == {"fix_remaining_css_paths", "fix_blog_posts_final"}

InitAssets ==
    /\ pc = "assets_start"
    /\ script \in AssetScripts
    /\ fn_input \in [file_dir : PostDirs, content : PostTexts]
    /\ CalledAlone

\* one pass of `for blog_post in blog_posts` of either main
FixAssetPaths ==
    /\ pc = "assets_start"
    /\ fn_output' = IF script = "fix_remaining_css_paths"
                    THEN fix_wordpress_asset_paths(fn_input.content, fn_input.file_dir)
                    ELSE fix_blog_post_css_paths(fn_input.content, fn_input.file_dir)
    /\ pc' = "assets_done"
    /\ UNCHANGED <<fn_input, functionFrame>>

NextAssets == FixAssetPaths

SpecAssets == InitAssets /\ [][NextAssets]_vars

\* the values of the src attributes of a text, in document order
src_value_pattern == <<Lit(<<"s", "r", "c", "=">>), AnyQuote, Star(NotQuote), AnyQuote>>

SrcValues(s) == HrefValuesOf(s, FindAll(src_value_pattern, s, FALSE))

References(s) == HrefValues(s) \o SrcValues(s)

\* the file a reference of a page in the directories dir names
FromDirectory(ref, dir) == ResolvedLocation(ref, dir)

\* C26: each reference that is rewritten resolves, from the directory of the
\* post, to the file that the original reference names from the site root.
C26_PrefixLeadsToSiteRoot ==
    pc = "assets_done" =>
        /\ Len(References(fn_output.content)) = Len(References(fn_input.content))
        /\ \A k \in 1..Len(References(fn_input.content)) :
              References(fn_output.content)[k] # References(fn_input.content)[k] =>
                  FromDirectory(References(fn_output.content)[k], blog_root \o fn_input.file_dir)
                      = FromDirectory(References(fn_input.content)[k], <<>>)


\* C27 (under SpecCleanup): no step of cleanup_blog_filenames destroys
\* content: a path that receives a file held none at the moment of the move,
\* and no content that was on disk is lost.
C27_RenameNeverDestroys ==
    [][/\ \A path \in DOMAIN disk :
             (disk'[path] # disk[path] /\ disk'[path] # None) => disk[path] = None
       /\ \A path \in DOMAIN disk :
             disk[path] # None => \E kept \in DOMAIN disk : disk'[kept] = disk[path]]_vars


(***************************************************************************)
(* fix_url_encoded_links of fix_broken_links.py called by itself.          *)
(***************************************************************************)
MaxEscapes == 2   \* pieces of a generated text

EscapePieces ==
    { <<"%", "2", "5", "2", "0">>, <<"%", "2", "5", "3", "F">>, <<"%", "2", "5", "2", "7">>, <<"%", "3", "F">>, <<"%", "2", "5">>, <<"%", "2", "0">>, <<"%", "2">>, <<"5">>, <<"a">> }

EscapedTexts == {Flatten(ps) : ps \in SeqsUpTo(EscapePieces, MaxEscapes)}

InitDecode ==
    /\ pc = "decode_start"
    /\ script = "fix_broken_links"
    /\ fn_input \in EscapedTexts
    /\ CalledAlone

\* content, fixes = fix_url_encoded_links(content)
FixUrlEncodedLinks ==
    /\ pc = "decode_start"
    /\ fn_output' = fix_url_encoded_links(fn_input)
    /\ pc' = "decode_done"
    /\ UNCHANGED <<fn_input, functionFrame>>

NextDecode == FixUrlEncodedLinks

SpecDecode == InitDecode /\ [][NextDecode]_vars

\* the listed escape a text begins with, if any
EscapesAt(s) == {r \in Items(replacements) : StartsWith(s, r[1])}

\* every listed escape of the text replaced at once, from left to right
RECURSIVE DecodedOnce(_)
DecodedOnce(s) ==
    IF s = <<>> THEN <<>>
    ELSE IF EscapesAt(s) # {} THEN Only(EscapesAt(s))[2] \o DecodedOnce(SubSeq(s, 4, Len(s)))
    ELSE <<s[1]>> \o DecodedOnce(Tail(s))

\* C28: fix_url_encoded_links decodes each escape of its input once: its
\* result is the input with the listed escapes replaced simultaneously, so
\* what the decoding of '%25' produces is not decoded again.
C28_DecodedAtMostOnce ==
    pc = "decode_done" => fn_output.content = DecodedOnce(fn_input)


\* C29 (under SpecFix): the .html.backup sibling of a page holds the content
\* the page had before the first run that modified it: it is created with
\* the content the page has at that moment, and no later step replaces it.
C29_BackupKeepsFirstOriginal ==
    [][\A n \in DOMAIN SitePages :
          /\ (disk[with_suffix_backup(SitePages[n])] = None
                 /\ disk'[with_suffix_backup(SitePages[n])] # None) =>
                disk'[with_suffix_backup(SitePages[n])] = disk[SitePages[n]]
          /\ disk[with_suffix_backup(SitePages[n])] # None =>
                disk'[with_suffix_backup(SitePages[n])] = disk[with_suffix_backup(SitePages[n])]]_vars


\* C30 (under Spec): every path whose existence check_file_exists tests,
\* site_root joined with the result of normalize_path, lies under site_root.
C30_TestedPathsUnderRoot ==
    \A k \in 1..Len(exists_calls) : IsUnderRoot(FullPath(exists_calls[k].path))

====
